---- MODULE Spec2Model ----
(***************************************************************************)
(* mongoose-couch: the per-collection command queue (lib/collection.js,    *)
(* lib/drivers/couchdb-cradle/collection.js), the index synthesis of       *)
(* Model.ensureIndexes, the document save/remove protocol,                 *)
(* Model.discriminator, Model.findById and Model.find (lib/model.js).      *)
(*                                                                         *)
(* Several specifications share the module:                                *)
(*   Spec     the collection queue with overlapping index-synthesis runs,  *)
(*            open/close events and bootstrap completions;                 *)
(*   SpecFn   Spec with functions given to callOrDeferUntilOpen;           *)
(*   SpecIdx  registration of one model and two successive ensureIndexes   *)
(*            runs over a concrete schema and stored design document;      *)
(*   SpecDoc  save and remove of one document instance;                    *)
(*   SpecDisc Model.discriminator calls on two models and three schemas;   *)
(*   SpecNest the queue with functions that call a gated driver method     *)
(*            while they run;                                              *)
(*   SpecLive the queue under fairness of the driver's answers;            *)
(*   SpecQuery Model.findById and Model.find over one answer of the store; *)
(*   SpecFlat the flat-file driver's findOneWithView                       *)
(*            (lib/drivers/flat-file/collection.js).                       *)
(***************************************************************************)
EXTENDS Integers, Sequences, FiniteSets, TLC

\* ---------------------------------------------------------------- bounds
MaxCalls == 3      \* calls on the collection, the application's and ensureIndexes' own
MaxRuns == 2       \* ensureIndexes runs (root and variants share a collection)
MaxEvents == 1     \* open and close events of the connection
MaxSaves == 2      \* save calls on the document instance
MaxRemoves == 2    \* remove calls on the document instance
MaxDiscriminators == 2   \* Model.discriminator calls
MaxRows == 3       \* rows the store answers to a listing

VARIABLES
  coll,      \* the Collection object and what it has sent to the store
  runs,      \* Spec: the ensureIndexes runs, run id -> record
  nextId,    \* the identity given to the next call (arguments object)
  nEvents,   \* open and close events so far
  doc,       \* SpecDoc: the document instance (isNew, $__.inserting, ...)
  saves,     \* SpecDoc: the save calls made, each with its insert and promise
  removes,   \* SpecDoc: the remove calls made
  promises,  \* SpecDoc: the removal promises created, each with its delete
  schema,    \* SpecIdx: the schema of the model (options, indexed fields)
  design,    \* SpecIdx: the design document as the store holds it
  model,     \* SpecIdx: the model's registration and its defaultView
  idx,       \* SpecIdx: per run, the fetch error, the writes issued, the document
  schemas,   \* SpecDisc: the Schema objects, by identity
  models,    \* SpecDisc: the compiled models, in order of compilation
  lastCall,  \* SpecDisc: the latest Model.discriminator call and how it ended
  lookup,    \* SpecQuery: a findById call, the store's answer and the outcome
  listing,   \* SpecQuery: a Model.find call, the rows answered and the outcome
  flat       \* SpecFlat: a findOneWithView call on the flat-file driver

collVars == <<coll, runs, nextId, nEvents>>
docVars == <<doc, saves, removes, promises>>
idxVars == <<schema, design, model, idx>>
discVars == <<schemas, models, lastCall>>
queryVars == <<lookup, listing, flat>>
vars == <<coll, runs, nextId, nEvents, doc, saves, removes, promises,
          schema, design, model, idx, schemas, models, lastCall,
          lookup, listing, flat>>

\* ------------------------------------------------------ the driver's methods
NonGatedOps == {"insert", "bulkInsert", "remove", "bulkRemove", "findById", "all"}
GatedOps == {"findOneWithView", "findWithView", "mapReduce"}
DriverOps == NonGatedOps \cup GatedOps

\* The methods the application calls in the model: one of each kind.
SubmitOps == {"insert", "findWithView"}

\* The waitForIndexes argument each CradleCollection method passes.
WaitsForIndexes(op) == op \in GatedOps

\* A call: its identity, the method (or "fn" for a function given to
\* callOrDeferUntilOpen), the waitForIndexes flag, the ensureIndexes run it
\* belongs to (0: the application), and what the collection looked like
\* when the call was made (sb: buffering).
Entry(id, op, wait, run, c) ==
  [id |-> id, op |-> op, wait |-> wait, run |-> run,
   sb |-> c.buffer]

\* new Collection(name, conn, opts)
NewCollection(bufferCommands) ==
  [bufferCommands |-> bufferCommands,
   queue |-> <<>>,
   buffer |-> bufferCommands,
   ensuringDb |-> FALSE,
   ensuringIndexes |-> 0,
   pendingDb |-> 0,        \* ensureDb bootstraps whose callback is outstanding
   closed |-> FALSE,       \* a close event came and onOpen has not run since
   executed |-> <<>>]      \* the calls handed to the store, in order

\* The condition of maybeQueueCall under which the call is deferred.
ShouldQueueNoGate(c, wait) == c.buffer
ShouldQueueGateAll(c, wait) == c.buffer \/ c.ensuringIndexes # 0
ShouldQueue(c, wait) == c.buffer \/ (wait /\ c.ensuringIndexes # 0)

\* The deferring branch of maybeQueueCall: push, and start a bootstrap
\* unless the ensuringDb flag is set.
EnqueueFront(c, e) ==
  [c EXCEPT !.queue = <<e>> \o @,
            !.ensuringDb = TRUE,
            !.pendingDb = IF c.ensuringDb THEN @ ELSE @ + 1]
EnqueueNoBootstrap(c, e) == [c EXCEPT !.queue = Append(@, e)]
Enqueue(c, e) ==
  [c EXCEPT !.queue = Append(@, e),
            !.ensuringDb = TRUE,
            !.pendingDb = IF c.ensuringDb THEN @ ELSE @ + 1]

\* The call reaches this.collection (the store): logged with the state of
\* the collection at that moment.
Execute(c, e) ==
  [c EXCEPT !.executed = Append(@, [id |-> e.id, op |-> e.op, wait |-> e.wait,
                                    run |-> e.run, sb |-> e.sb,
                                    idx |-> c.ensuringIndexes,
                                    buf |-> c.buffer])]

\* A driver method: if (this.maybeQueueCall(name, flag, arguments)) return;
\* otherwise the store call.
DriverCall(c, e) ==
  IF ShouldQueue(c, e.wait) THEN Enqueue(c, e) ELSE Execute(c, e)

\* The identity of a call made while a function given to
\* callOrDeferUntilOpen runs: later than every call made before.
Max(S) == CHOOSE x \in S : \A y \in S : y <= x
NextFree(c) ==
  1 + Max({nextId - 1} \cup {c.queue[i].id : i \in 1..Len(c.queue)}
                       \cup {c.executed[i].id : i \in 1..Len(c.executed)})

\* fn.call(this, ...): the function runs; "fnCall" is a function that
\* calls an index-dependent driver method (findWithView) while it runs.
FnRun(c, e) ==
  IF e.op = "fnCall"
    THEN LET x == Execute(c, e)
         IN DriverCall(x, Entry(NextFree(x), "findWithView", TRUE, 0, x))
    ELSE Execute(c, e)

\* callOrDeferUntilOpen(fn, dontWaitForIndexes)
callOrDeferUntilOpen(c, e) ==
  IF ShouldQueue(c, e.wait) THEN Enqueue(c, e) ELSE FnRun(c, e)

\* e[0].apply(this, e[2]) in doQueue: a method name was resolved to the
\* method, which asks maybeQueueCall again; a function is run as it is.
Replay(c, e) ==
  IF e.op \in {"fn", "fnCall"} THEN FnRun(c, e) ELSE DriverCall(c, e)

RECURSIVE doQueueLoop(_, _, _, _)
doQueueLoop(c, old, i, indexing) ==
  IF i > Len(old) THEN c
  ELSE doQueueLoop(IF old[i].wait /\ indexing
                     THEN [c EXCEPT !.queue = Append(@, old[i])]
                     ELSE Replay(c, old[i]),
                   old, i + 1, indexing)

\* Collection.prototype.doQueue
doQueueKeep(c) == doQueueLoop(c, c.queue, 1, c.ensuringIndexes # 0)
doQueue(c) ==
  doQueueLoop([c EXCEPT !.queue = <<>>], c.queue, 1, c.ensuringIndexes # 0)

\* Collection.prototype.onOpen (CradleCollection.onOpen calls it)
onOpen(c) ==
  doQueue([c EXCEPT !.buffer = FALSE, !.ensuringDb = FALSE, !.closed = FALSE])

\* Collection.prototype.onClose
onCloseNoBuffer(c) ==
  IF c.bufferCommands THEN [c EXCEPT !.ensuringDb = FALSE] ELSE c
onClose(c) ==
  IF c.bufferCommands
    THEN [c EXCEPT !.buffer = TRUE, !.ensuringDb = FALSE]
    ELSE c

\* ------------------------------------------------- ensureIndexes, as a run
\* phase: "none" not called; "skipped" returned early (nothing to
\* synthesize); "fetch" findById of the design document outstanding;
\* "write" insert of the design document outstanding; "tick"
\* process.nextTick(done) outstanding; "done" completed.
\* call: the id of the run's outstanding store call; err: the error done got.
NoRun == [phase |-> "none", call |-> 0, err |-> FALSE]
Active(r) == runs[r].phase \in {"fetch", "write", "tick"}

ExecutedIds(c) == {c.executed[i].id : i \in 1..Len(c.executed)}
QueuedIds(c) == {c.queue[i].id : i \in 1..Len(c.queue)}

\* function done(err): the counter, then the flush when it reaches zero.
doneFlushBeforeDecrement(c) ==
  IF c.ensuringIndexes = 1
    THEN [doQueue(c) EXCEPT !.ensuringIndexes = @ - 1]
    ELSE [c EXCEPT !.ensuringIndexes = @ - 1]
done(c) ==
  LET d == [c EXCEPT !.ensuringIndexes = @ - 1]
  IN IF d.ensuringIndexes = 0 THEN doQueue(d) ELSE d

\* ------------------------------------------------------ a document instance
\* new Model(doc) is new; a hydrated document (Model.hydrate -> init) is not.
NewDocument(isNew) ==
  [isNew |-> isNew, inserting |-> FALSE, id |-> "id1", rev |-> 0, removing |-> 0]

Resolved(k) == saves[k].status # "inflight"
NumResolved == Cardinality({k \in 1..Len(saves) : Resolved(k)})
NumSaved == Cardinality({k \in 1..Len(saves) : saves[k].status = "ok"})

\* result of a successful collection.insert: the id the document was sent
\* with, or one the store assigns when it had none, and a new revision.
NoResult == [id |-> "", rev |-> 0]
StoreResult(k) ==
  [id |-> IF saves[k].id = "" THEN "assigned" ELSE saves[k].id,
   rev |-> NumSaved + 1]

\* Promise (lib/promise.js): addBack on a resolved promise calls back at
\* once with its outcome; error and complete call every callback added.
PromiseAddBack(p) ==
  [p |-> p, issued |-> FALSE, during |-> IF promises[p] = "pending" THEN p ELSE 0,
   fired |-> IF promises[p] = "pending" THEN 0 ELSE 1,
   outcome |-> IF promises[p] = "pending" THEN "none" ELSE promises[p]]
PromiseResolve(p, outcome) ==
  [i \in 1..Len(removes) |->
     IF removes[i].p = p /\ removes[i].fired = 0
       THEN [removes[i] EXCEPT !.fired = @ + 1, !.outcome = outcome]
       ELSE removes[i]]

\* -------------------------------------------- schemas and design documents
\* An optional property of an object: undefined, or an object given as a
\* function from its own property names.
Undef == [def |-> FALSE, m |-> <<>>]
Some(m) == [def |-> TRUE, m |-> m]
Get(o, k) == IF k \in DOMAIN o THEN Some(o[k]) ELSE Undef

\* The source text of a function, as the sequence of its tokens.  a and m
\* carry what a token names: the field and key modifier of an emit, the
\* discriminator key and value of a guard.
Tk(t) == [t |-> t, a |-> "", m |-> ""]
Brace == Tk("{")

\* String.prototype.replace(string, string): the first occurrence only,
\* and the text itself when there is none.
replace(text, tok, repl) ==
  IF \E i \in 1..Len(text) : text[i] = tok
    THEN LET i == CHOOSE i \in 1..Len(text) :
                    text[i] = tok /\ \A j \in 1..(i - 1) : text[j] # tok
         IN SubSeq(text, 1, i - 1) \o repl \o SubSeq(text, i + 1, Len(text))
    ELSE text

\* Map functions an application writes for a custom view: a function
\* expression with a block body, and an arrow function with an expression
\* body (no brace in its text).
MapBlock(f) ==
  <<Tk("function(doc)"), Brace, [t |-> "emit", a |-> f, m |-> ""], Tk("}")>>
MapArrow(f) ==
  <<Tk("doc=>"), [t |-> "emit", a |-> f, m |-> ""]>>
ReduceCount == <<Tk("_count")>>
UpdateFn ==
  <<Tk("function(doc,req)"), Brace, Tk("return[doc,'ok']"), Tk("}")>>
ListFn ==
  <<Tk("function(head,req)"), Brace, Tk("getRow"), Tk("send(row)"), Tk("}")>>

\* utils.toCollectionName: the lower-cased plural of the variant's name.
toCollectionName(value) ==
  CASE value = "User" -> "users"
    [] value = "Group" -> "groups"

\* 'by' + name.charAt(0).toUpperCase() + name.slice(1)
byName(name) ==
  CASE name = "name" -> "byName"
    [] name = "displayName" -> "byDisplayName"
    [] name = "_id" -> "by_id"

\* The paths of a schema in their order, and schema.indexes(): one entry
\* per path whose descriptor sets index (true or a key-modifier string).
Paths == <<"name", "displayName">>
IsIndexed(f) == f # "off"
indexes(s) == SelectSeq(Paths, LAMBDA f : IsIndexed(s.tree[f]))

\* typeof keyModifier !== 'string' => ''
keyModifier(s, name) ==
  IF name \in DOMAIN s.tree /\ s.tree[name] \notin {"off", "on"}
    THEN s.tree[name] ELSE ""

IsVariant(s) == s.mapping = "variant"

\* discriminatorEarlyOut: '' for a root, the guard statement for a variant.
discriminatorEarlyOut(s) ==
  IF IsVariant(s) THEN <<[t |-> "guard", a |-> s.key, m |-> s.value]>> ELSE <<>>

\* listDiscriminatorHandler
listDiscriminatorHandler(s) ==
  <<Tk("var getDiscriminatedRow=function()"), Brace, Tk("getRow"),
    [t |-> "rowguard", a |-> s.key, m |-> s.value], Tk("}")>>

NoView == [ddoc |-> "", view |-> ""]
View(ddoc, view) == [ddoc |-> ddoc, view |-> view]

\* The views of the schema marked asDefaultIndex.
DefaultViews(s) ==
  IF s.views.def
    THEN {k \in DOMAIN s.views.m : s.views.m[k].asDefaultIndex}
    ELSE {}

\* Line 409 on a root that has discriminators: its mapping's value is
\* null, and toCollectionName lower-cases its argument.
NameThrows(s) == s.mapping = "root" /\ DefaultViews(s) # {}

\* Lines 403-413: the explicit default view (the throw on a second marked
\* view is in Prologue).
ExplicitDefault(s) ==
  IF DefaultViews(s) = {} \/ NameThrows(s)
    THEN NoView
    ELSE View(IF s.mapping # "none" THEN toCollectionName(s.value) ELSE "$root",
              CHOOSE k \in DefaultViews(s) : TRUE)

\* Model.ensureIndexes, lines 399-437: what it decides before it touches
\* the collection.  threw: "config" (more than one default view), "type"
\* (indexes[0][0] of an empty indexes array, or the name of a null
\* value), "none".
PrologueIgnoringForcePlain(s) ==
  LET explicit == ExplicitDefault(s)
      ix == indexes(s)
      plain == Len(ix) = 0 /\ explicit = NoView
      designDoc == IF IsVariant(s) THEN toCollectionName(s.value) ELSE "$root"
      all == IF IsVariant(s) /\ plain THEN Append(ix, "_id") ELSE ix
  IN [threw |-> IF NameThrows(s) THEN "type"
                ELSE IF Cardinality(DefaultViews(s)) > 1 THEN "config"
                ELSE IF IsVariant(s) /\ ~plain /\ Len(ix) = 0 THEN "type"
                ELSE "none",
      designDoc |-> designDoc,
      indexes |-> all,
      defaultView |-> IF ~IsVariant(s) THEN explicit
                      ELSE IF plain THEN View(designDoc, "by_id")
                      ELSE IF Len(ix) > 0 THEN View(designDoc, byName(ix[1]))
                      ELSE NoView,
      nothing |-> Len(all) = 0 /\ ~s.views.def /\ ~s.updates.def /\ ~s.lists.def]
Prologue(s) ==
  LET explicit == ExplicitDefault(s)
      ix == indexes(s)
      plain == (Len(ix) = 0 /\ explicit = NoView)
                 \/ s.forcePlainDiscriminatorIndex
      designDoc == IF IsVariant(s) THEN toCollectionName(s.value) ELSE "$root"
      all == IF IsVariant(s) /\ plain THEN Append(ix, "_id") ELSE ix
  IN [threw |-> IF NameThrows(s) THEN "type"
                ELSE IF Cardinality(DefaultViews(s)) > 1 THEN "config"
                ELSE IF IsVariant(s) /\ ~plain /\ Len(ix) = 0 THEN "type"
                ELSE "none",
      designDoc |-> designDoc,
      indexes |-> all,
      defaultView |-> IF ~IsVariant(s) THEN explicit
                      ELSE IF plain THEN View(designDoc, "by_id")
                      ELSE IF Len(ix) > 0 THEN View(designDoc, byName(ix[1]))
                      ELSE NoView,
      nothing |-> Len(all) = 0 /\ ~s.views.def /\ ~s.updates.def /\ ~s.lists.def]

\* function hasEquivalentFunctions(a, b)
hasEquivalentFunctionsOfRequired(a, b) ==
  IF ~a.def /\ ~b.def THEN TRUE
  ELSE IF ~a.def \/ ~b.def THEN FALSE
  ELSE \A e \in DOMAIN b.m : e \in DOMAIN a.m /\ a.m[e] = b.m[e]
hasEquivalentFunctions(a, b) ==
  IF ~a.def /\ ~b.def THEN TRUE
  ELSE IF ~a.def \/ ~b.def THEN FALSE
  ELSE \A e \in DOMAIN a.m : e \in DOMAIN b.m /\ a.m[e] = b.m[e]

\* Lines 491-494: the list function rewritten for a variant.
RewriteList(s, text) ==
  replace(replace(text, Tk("getRow"), <<Tk("getDiscriminatedRow")>>),
          Brace, <<Brace>> \o listDiscriminatorHandler(s))

\* Lines 514-526: the definition maybeUpdateIndex builds, for a custom view
\* (spec) and for an indexed field.
CustomDef(s, spec) ==
  [k \in {x \in {"map", "reduce"} : spec[x] # <<>>} |->
     IF k = "map"
       THEN IF discriminatorEarlyOut(s) # <<>>
              THEN replace(spec.map, Brace, <<Brace>> \o discriminatorEarlyOut(s))
              ELSE spec.map
       ELSE spec.reduce]
IndexDefNoModifier(s, name) ==
  [k \in {"map"} |->
     <<Tk("function(doc)"), Brace>> \o discriminatorEarlyOut(s)
       \o <<[t |-> "emit", a |-> name, m |-> ""], Tk("}")>>]
IndexDef(s, name) ==
  [k \in {"map"} |->
     <<Tk("function(doc)"), Brace>> \o discriminatorEarlyOut(s)
       \o <<[t |-> "emit", a |-> name, m |-> keyModifier(s, name)], Tk("}")>>]

\* for (var k in obj): the property names in some order.
RECURSIVE Keys(_)
Keys(S) ==
  IF S = {} THEN <<>>
  ELSE LET k == CHOOSE k \in S : TRUE IN <<k>> \o Keys(S \ {k})

\* The calls of maybeUpdateIndex in their order: the indexed fields, then
\* the custom views.
Items(s) ==
  LET ix == Prologue(s).indexes
      cv == IF s.views.def THEN Keys(DOMAIN s.views.m) ELSE <<>>
  IN [i \in 1..Len(ix) |-> [viewName |-> byName(ix[i]), def |-> IndexDef(s, ix[i])]]
       \o [i \in 1..Len(cv) |->
             [viewName |-> cv[i], def |-> CustomDef(s, s.views.m[cv[i]])]]

\* function maybeUpdateIndex(name, spec), on st = [views, modified]
maybeUpdateIndex(st, it) ==
  IF hasEquivalentFunctions(Get(st.views, it.viewName), Some(it.def))
    THEN st
    ELSE [views |-> [x \in (DOMAIN st.views) \cup {it.viewName} |->
                       IF x = it.viewName THEN it.def ELSE st.views[x]],
          modified |-> TRUE]

RECURSIVE maybeUpdateAll(_, _, _)
maybeUpdateAll(st, items, i) ==
  IF i > Len(items) THEN st
  ELSE maybeUpdateAll(maybeUpdateIndex(st, items[i]), items, i + 1)

\* A design document: absent from the store, or its views, updates, lists.
NoDesign == [exists |-> FALSE, views |-> Undef, updates |-> Undef, lists |-> Undef]

\* The callback of the findById, lines 465-557: the design document to
\* write, whether it was modified, and schema.options.lists as the callback
\* leaves it (customLists[l] is assigned the rewritten text).
Synthesize(s, got) ==
  LET guard == discriminatorEarlyOut(s)
      d0 == IF got.exists THEN got ELSE NoDesign
      views0 == IF d0.views.def THEN d0.views.m ELSE <<>>
      modU == ~hasEquivalentFunctions(d0.updates, s.updates)
      lists == IF s.lists.def /\ guard # <<>>
                 THEN Some([l \in DOMAIN s.lists.m |-> RewriteList(s, s.lists.m[l])])
                 ELSE s.lists
      modL == ~hasEquivalentFunctions(d0.lists, lists)
      items == Items(s)
      st == maybeUpdateAll([views |-> views0, modified |-> modU \/ modL], items, 1)
      names == {items[i].viewName : i \in 1..Len(items)}
  IN [design |-> [exists |-> TRUE,
                  views |-> IF names = {} THEN Undef
                            ELSE Some([x \in (DOMAIN st.views) \cap names |-> st.views[x]]),
                  updates |-> IF modU THEN s.updates ELSE d0.updates,
                  lists |-> IF modL THEN lists ELSE d0.lists],
      modified |-> st.modified \/ names = {} \/ (DOMAIN st.views) \ names # {},
      lists |-> lists]

\* The schemas registered in the model: a root (mapping "none": no
\* discriminatorMapping; "root": discriminators have been registered on
\* it) or the variant "User" of a root whose other variant is "Group"; no field indexed, or both (name
\* with a key modifier); custom updates or custom lists or neither.
Trees ==
  {[f \in {"name", "displayName"} |-> "off"],
   [f \in {"name", "displayName"} |-> IF f = "displayName" THEN "on" ELSE "off"],
   [f \in {"name", "displayName"} |-> IF f = "name" THEN ".toLowerCase()" ELSE "on"]}
ViewSpec(map, reduce, asDefaultIndex) ==
  [map |-> map, reduce |-> reduce, asDefaultIndex |-> asDefaultIndex]
ViewChoices ==
  {Undef,
   Some([k \in {"names"} |-> ViewSpec(MapBlock("name"), <<>>, TRUE)]),
   Some([k \in {"names", "displayNames"} |->
           ViewSpec(MapBlock(IF k = "names" THEN "name" ELSE "displayName"),
                    <<>>, TRUE)]),
   Some([k \in {"names"} |-> ViewSpec(MapArrow("name"), <<>>, FALSE)]),
   Some([k \in {"names"} |-> ViewSpec(MapBlock("name"), ReduceCount, FALSE)])}
Schemas ==
  {[mapping |-> mp, key |-> "$kind",
    value |-> IF mp = "variant" THEN "User" ELSE "",
    tree |-> tr, views |-> vw, updates |-> ul[1], lists |-> ul[2],
    forcePlainDiscriminatorIndex |-> fp, autoIndex |-> ai] :
     mp \in {"none", "root", "variant"}, tr \in Trees, vw \in ViewChoices,
     ul \in {<<Undef, Undef>>,
             <<Some([k \in {"touch"} |-> UpdateFn]), Undef>>,
             <<Undef, Some([k \in {"rows"} |-> ListFn])>>},
     fp \in BOOLEAN, ai \in BOOLEAN}
Sibling == "Group"

\* What the store may hold under the design document's id beforehand:
\* nothing, a view of an earlier schema, the view "names" without a
\* reduce, or that view with a reduce next to an update and a list of an
\* earlier schema.
Designs ==
  {NoDesign,
   [exists |-> TRUE, views |-> Some([k \in {"old"} |-> [x \in {"map"} |-> MapBlock("old")]]),
    updates |-> Undef, lists |-> Undef],
   [exists |-> TRUE, views |-> Some([k \in {"names"} |-> [x \in {"map"} |-> MapBlock("name")]]),
    updates |-> Undef, lists |-> Undef],
   [exists |-> TRUE,
    views |-> Some([k \in {"names"} |->
                      [x \in {"map", "reduce"} |->
                         IF x = "map" THEN MapBlock("name") ELSE ReduceCount]]),
    updates |-> Some([k \in {"touch", "old"} |-> UpdateFn]),
    lists |-> Some([k \in {"old"} |-> ListFn])]}

\* The model before Mongoose.prototype.model is called for it.
NewModel ==
  [attempted |-> FALSE, init |-> FALSE, cached |-> FALSE, registered |-> FALSE,
   threw |-> "none", defaultView |-> NoView]
\* A root model registered without index synthesis (autoIndex off), on
\* which Model.discriminator has since registered variants.
RootWithDiscriminators ==
  [attempted |-> TRUE, init |-> FALSE, cached |-> TRUE, registered |-> TRUE,
   threw |-> "none", defaultView |-> NoView]
\* What a listener of 'index' finds on the collection when self.emit calls
\* it: emit is the first statement of done.
emitIndex(c) ==
  [ensuringIndexes |-> c.ensuringIndexes,
   gated |-> Cardinality({i \in 1..Len(c.queue) : c.queue[i].wait})]
NewIdx ==
  [fetchErr |-> [r \in 1..MaxRuns |-> FALSE],
   writes |-> [r \in 1..MaxRuns |-> 0],
   events |-> [r \in 1..MaxRuns |-> <<>>],   \* 'index' events: the err of each
   seen |-> [r \in 1..MaxRuns |-> <<>>],     \* what the listener of each found
   got |-> NoDesign,                          \* the design the last findById gave
   stored |-> 0,
   doc |-> NoDesign]
PlainSchema ==
  [mapping |-> "none", key |-> "$kind", value |-> "",
   tree |-> [f \in {"name", "displayName"} |-> "off"],
   views |-> Undef, updates |-> Undef, lists |-> Undef,
   forcePlainDiscriminatorIndex |-> FALSE, autoIndex |-> FALSE]

\* ------------------------------------------------- Model.discriminator
\* An options object is a function from the names of the options it holds
\* to their values; values are written as strings ("true", "false", a name).
Truthy(v) == v \notin {"false", ""}
CopiedOptions == {"collection", "autoIndex", "disableCache"}
CustomizableOptions ==
  {"toJSON", "toObject", "views", "updates", "lists", "forcePlainDiscriminatorIndex"}
\* The four that mergeSchemas deletes before the merge and restores after.
RestoredOptions == {"views", "updates", "lists", "forcePlainDiscriminatorIndex"}

\* An object with one property.
Obj(k, v) == [x \in {k} |-> v]
\* utils.merge(to, from, keepExisting = true): what to lacks comes from from.
merge(to, from) ==
  [k \in DOMAIN to \cup DOMAIN from |-> IF k \in DOMAIN to THEN to[k] ELSE from[k]]
\* utils.deepEqual on two options objects: the same names with the same values.
deepEqual(a, b) ==
  /\ DOMAIN a = DOMAIN b
  /\ \A k \in DOMAIN a : a[k] = b[k]

\* mergeSchemas, lines 263-266: the options the derived schema may not set.
copyOptions(child, base) ==
  [k \in DOMAIN child \cup (CopiedOptions \cap DOMAIN base) |->
     IF k \in CopiedOptions \cap DOMAIN base THEN base[k] ELSE child[k]]

\* validateOptions, lines 268-281: TRUE when it throws.  a is cloned, b is
\* merged into the clone, and each customizable option of the clone becomes
\* b's when b's is truthy and is deleted otherwise.
validateOptions(a, b) ==
  LET m == merge(a, b)
      kept == {k \in CustomizableOptions : k \in DOMAIN b /\ Truthy(b[k])}
      c == [k \in (DOMAIN m \ CustomizableOptions) \cup kept |->
              IF k \in kept THEN b[k] ELSE m[k]]
  IN ~deepEqual(c, b)

\* Lines 251-253: the model's schema is a derived one.
rootCheck(s, base) == s[base].mapping = "variant"
\* Lines 255-258: the schema given already has a path named like the key.
keyCheckSkipped(s, base, sc) == FALSE
keyCheck(s, base, sc) ==
  s[base].options["discriminatorKey"] \in DOMAIN s[sc].paths

\* A field descriptor: the schema that declared it, and its default.
Field(by) == [by |-> by, default |-> ""]
\* Line 317: obj[key] = { type: String, default: name }.
KeyField(name) == [by |-> "discriminator", default |-> name]

\* mergeSchemas, lines 283-321, on the Schema objects s: schema sc becomes
\* the derived schema of base under the name given.  Of the customizable
\* options the four restored ones are the schema's own when truthy and
\* absent otherwise; toJSON and toObject take part in the merge.
mergeSchemasChildHooksFirst(s, sc, base, name) ==
  LET own == s[sc].options
      stripped == [k \in DOMAIN own \ RestoredOptions |-> own[k]]
      merged == merge(stripped, s[base].options)
      restored == {k \in RestoredOptions : k \in DOMAIN own /\ Truthy(own[k])}
      opts == [k \in (DOMAIN merged \ RestoredOptions) \cup restored |->
                 IF k \in restored THEN own[k] ELSE merged[k]]
      key == s[base].options["discriminatorKey"]
      paths == merge(s[sc].paths, s[base].paths)
  IN [s EXCEPT ![sc] = [paths |-> Obj(key, KeyField(name)) @@ paths,
                        options |-> opts,
                        mapping |-> "variant", key |-> key, value |-> name,
                        callQueue |-> s[sc].callQueue \o s[base].callQueue]]
mergeSchemas(s, sc, base, name) ==
  LET own == s[sc].options
      stripped == [k \in DOMAIN own \ RestoredOptions |-> own[k]]
      merged == merge(stripped, s[base].options)
      restored == {k \in RestoredOptions : k \in DOMAIN own /\ Truthy(own[k])}
      opts == [k \in (DOMAIN merged \ RestoredOptions) \cup restored |->
                 IF k \in restored THEN own[k] ELSE merged[k]]
      key == s[base].options["discriminatorKey"]
      paths == merge(s[sc].paths, s[base].paths)
  IN [s EXCEPT ![sc] = [paths |-> Obj(key, KeyField(name)) @@ paths,
                        options |-> opts,
                        mapping |-> "variant", key |-> key, value |-> name,
                        callQueue |-> s[base].callQueue \o s[sc].callQueue]]

\* Lines 329-331: the model's schema becomes a root unless it has a mapping.
markRoot(s, base) ==
  IF s[base].mapping = "none"
  THEN [s EXCEPT ![base].mapping = "root",
                 ![base].key = s[base].options["discriminatorKey"]]
  ELSE s

\* Model.compile as db.model reaches it: the model holds the Schema object
\* it was given, and no discriminators.
compile(name, sc, collection) ==
  [name |-> name, schema |-> sc, collection |-> collection,
   discriminators |-> [def |-> FALSE, m |-> <<>>]]

NoSchemas == <<>>
NoCall == [n |-> 0, model |-> 0, name |-> "", schema |-> "", threw |-> "none"]

\* The Schema objects of the model: S and U, the schemas of two models that
\* are no discriminators, and T, a schema written to derive from S.
SchemaIds == {"S", "T", "U"}
DiscriminatorNames == {"User", "Group"}
Maybe(k, vals) == {[x \in {} |-> ""]} \cup {Obj(k, v) : v \in vals}
NewSchema(id, names, options) ==
  [paths |-> [f \in names |-> Field(id)], options |-> options,
   mapping |-> "none", key |-> "", value |-> "", callQueue |-> <<id>>]
RootOptions ==
  {Obj("discriminatorKey", "$kind") @@ Obj("autoIndex", "true") @@ a @@ b @@ c :
     a \in Maybe("safe", {"true"}),
     b \in Maybe("forcePlainDiscriminatorIndex", {"false"}),
     c \in Maybe("collection", {"entities"})}
ChildOptions ==
  {Obj("discriminatorKey", "$kind") @@ Obj("autoIndex", "false")
     @@ Obj("collection", "users") @@ a @@ b :
     a \in Maybe("safe", {"true", "false"}),
     b \in Maybe("forcePlainDiscriminatorIndex", {"true"})}
RootPaths == {"name", "displayName"}
ChildPaths == {{"name", "email"}, {"name", "email", "$kind"}}

\* ------------------------------------------- Model.findById, Model.find
\* How the options argument of a findById call is given.
OptionForms == {"absent", "empty", "returnDeleted", "noReturnDeleted"}
\* opts.returnDeleted is truthy.
ReturnDeleted(opts) == opts = "returnDeleted"

\* CradleCollection.prototype.findById past maybeQueueCall: with two
\* arguments opts is undefined; the store answers an error, or a record
\* that carries _deleted or not.
CradleFindById(opts, storeErr, deleted) ==
  IF storeErr THEN "store_error"
  ELSE IF opts # "absent" /\ deleted /\ ~ReturnDeleted(opts) THEN "not_found"
  ELSE "record"

\* Model.findById: without a callback in third place the second argument
\* is the callback and options = {}; the driver is called with three
\* arguments either way, and a record is hydrated.
ModelFindById(opts, storeErr, deleted) ==
  CradleFindById(IF opts = "absent" THEN "empty" ELSE opts, storeErr, deleted)

NoLookup ==
  [entry |-> "", opts |-> "absent", storeErr |-> FALSE, deleted |-> FALSE,
   result |-> "none"]

\* An identifier is the sequence of its characters.
RowIds == {<<"_", "d">>, <<"a">>, <<"b", "_">>}
\* A row of the listing (collection.all) as the store answers it; doc is
\* present under include_docs.
Row(id, include_docs) ==
  IF include_docs
  THEN [id |-> id, key |-> id, value |-> [rev |-> Len(id)],
        doc |-> [_id |-> id, _rev |-> Len(id), body |-> "doc"]]
  ELSE [id |-> id, key |-> id, value |-> [rev |-> Len(id)]]
SeqsUpTo(S, n) == UNION {[1..k -> S] : k \in 0..n}
\* Model.find sets include_docs exactly when it has a callback.
RowLists(include_docs) ==
  SeqsUpTo({Row(id, include_docs) : id \in RowIds}, MaxRows)

\* a[i].id[0] === '_'
Internal(row) == Len(row.id) > 0 /\ row.id[1] = "_"
\* response_to_input_refs and response_to_input_full: the loop from i on,
\* the kept rows written to the front of the array in the order met.
RECURSIVE refsLoop(_, _)
refsLoop(a, i) ==
  IF i > Len(a) THEN <<>>
  ELSE IF Internal(a[i]) THEN refsLoop(a, i + 1)
  ELSE <<[f \in (DOMAIN a[i] \ {"id", "key", "value"}) \cup {"_id", "_rev"} |->
            IF f = "_id" THEN a[i].id
            ELSE IF f = "_rev" THEN a[i].value.rev
            ELSE a[i][f]]>> \o refsLoop(a, i + 1)
response_to_input_refs(a) == refsLoop(a, 1)
RECURSIVE fullLoop(_, _)
fullLoop(a, i) ==
  IF i > Len(a) THEN <<>>
  ELSE IF Internal(a[i]) THEN fullLoop(a, i + 1)
  ELSE <<a[i].doc>> \o fullLoop(a, i + 1)
response_to_input_full(a) == fullLoop(a, 1)

\* Model.find, lines 711-727: the transform chosen and applied to the rows.
transformAlways(objs, callback, defaultView) ==
  IF callback THEN response_to_input_full(objs) ELSE response_to_input_refs(objs)
transform(objs, callback, defaultView) ==
  IF defaultView THEN objs
  ELSE IF callback THEN response_to_input_full(objs)
  ELSE response_to_input_refs(objs)

NoListing ==
  [rows |-> <<>>, callback |-> FALSE, defaultView |-> FALSE, err |-> FALSE,
   state |-> "none", objs |-> <<>>]

\* ------------------------------------------------- the flat-file driver
\* Strings as sequences of characters: String.prototype.startsWith,
\* substr(start) and toLowerCase.
startsWith(str, prefix) ==
  Len(str) >= Len(prefix) /\ SubSeq(str, 1, Len(prefix)) = prefix
substr(str, start) == SubSeq(str, start + 1, Len(str))
toLowerCase(str) ==
  [i \in 1..Len(str) |->
     CASE str[i] = "N" -> "n" [] str[i] = "D" -> "d" [] OTHER -> str[i]]

RootBy == <<"$", "r", "o", "o", "t", "/", "b", "y">>
\* The view references given to findOneWithView: $root/byName,
\* $root/byDisplayName, the custom view $root/names, users/byName.
ViewRefs ==
  {RootBy \o <<"N", "a", "m", "e">>,
   RootBy \o <<"D", "i", "s", "p", "l", "a", "y", "N", "a", "m", "e">>,
   <<"$", "r", "o", "o", "t", "/", "n", "a", "m", "e", "s">>,
   <<"u", "s", "e", "r", "s", "/", "b", "y", "N", "a", "m", "e">>}
\* The documents a collection directory may hold: the fields name and
\* displayName, each "bob" or "amy".
FlatDocs ==
  LET name == <<"n", "a", "m", "e">>
      displayName == <<"d", "i", "s", "p", "l", "a", "y", "N", "a", "m", "e">>
  IN {[f \in {name, displayName} |-> IF f = name THEN n ELSE d] :
        n, d \in {"bob", "amy"}}
\* e.doc[field]: undefined for a property the document has not.
Prop(d, field) == IF field \in DOMAIN d THEN d[field] ELSE "undefined"
\* res.filter(e => e.doc[field] === opts.key)[0], then e && e.doc
FirstMatch(docs, field, key) ==
  LET hits == SelectSeq(docs, LAMBDA d : Prop(d, field) = key)
  IN IF hits = <<>> THEN <<>> ELSE <<hits[1]>>
NoFlat ==
  [view |-> <<>>, key |-> "", docs |-> <<>>, state |-> "none",
   reads |-> 0, calls |-> <<>>]
\* callback(err) and callback(null, doc): doc holds the document, or
\* nothing when the callback got undefined.
CallbackErr == [err |-> TRUE, doc |-> <<>>]
CallbackDoc(d) == [err |-> FALSE, doc |-> d]

\* ----------------------------------------------------------------- Spec
Init ==
  /\ coll \in {NewCollection(b) : b \in BOOLEAN}
  /\ runs = [r \in 1..MaxRuns |-> NoRun]
  /\ nextId = 1
  /\ nEvents = 0
  /\ doc = NewDocument(TRUE)
  /\ saves = <<>>
  /\ removes = <<>>
  /\ promises = <<>>
  /\ schema = PlainSchema
  /\ design = NoDesign
  /\ model = NewModel
  /\ idx = NewIdx
  /\ schemas = NoSchemas
  /\ models = <<>>
  /\ lastCall = NoCall
  /\ lookup = NoLookup
  /\ listing = NoListing
  /\ flat = NoFlat

\* The application calls a driver method.
Submit(op) ==
  /\ nextId <= MaxCalls
  /\ coll' = DriverCall(coll, Entry(nextId, op, WaitsForIndexes(op), 0, coll))
  /\ nextId' = nextId + 1
  /\ UNCHANGED <<runs, nEvents>>
  /\ UNCHANGED <<docVars, idxVars, discVars, queryVars>>

\* The application calls callOrDeferUntilOpen(fn, dontWaitForIndexes).
SubmitFn(dontWaitForIndexes) ==
  /\ nextId <= MaxCalls
  /\ coll' = callOrDeferUntilOpen(coll,
                 Entry(nextId, "fn", ~dontWaitForIndexes, 0, coll))
  /\ nextId' = nextId + 1
  /\ UNCHANGED <<runs, nEvents>>
  /\ UNCHANGED <<docVars, idxVars, discVars, queryVars>>

\* The callback of an ensureDb bootstrap: this.onOpen.bind(this).
EnsureDbDone ==
  /\ coll.pendingDb > 0
  /\ coll' = onOpen([coll EXCEPT !.pendingDb = @ - 1])
  /\ UNCHANGED <<runs, nextId, nEvents>>
  /\ UNCHANGED <<docVars, idxVars, discVars, queryVars>>

\* The connection opens and tells its collections.
OpenEvent ==
  /\ nEvents < MaxEvents
  /\ coll' = onOpen(coll)
  /\ nEvents' = nEvents + 1
  /\ UNCHANGED <<runs, nextId>>
  /\ UNCHANGED <<docVars, idxVars, discVars, queryVars>>

\* The connection closes and tells its collections.
CloseEvent ==
  /\ nEvents < MaxEvents
  /\ coll' = [onClose(coll) EXCEPT !.closed = TRUE]
  /\ nEvents' = nEvents + 1
  /\ UNCHANGED <<runs, nextId>>
  /\ UNCHANGED <<docVars, idxVars, discVars, queryVars>>

\* Model.ensureIndexes up to the findById of the design document; nothing:
\* the schema declares no index, view, update or list.
StartRun(r, nothing) ==
  /\ runs[r].phase = "none"
  /\ \A q \in 1..(r - 1) : runs[q].phase # "none"
  /\ IF nothing
       THEN /\ runs' = [runs EXCEPT ![r].phase = "skipped"]
            /\ UNCHANGED <<coll, nextId>>
       ELSE /\ nextId <= MaxCalls
            /\ coll' = DriverCall([coll EXCEPT !.ensuringIndexes = @ + 1],
                         Entry(nextId, "findById", FALSE, r, coll))
            /\ runs' = [runs EXCEPT ![r].phase = "fetch", ![r].call = nextId]
            /\ nextId' = nextId + 1
  /\ UNCHANGED nEvents
  /\ UNCHANGED <<docVars, idxVars, discVars, queryVars>>

\* The store answers the findById; the diff finds the design document
\* modified (insert it) or not (process.nextTick(done)).
FetchResponse(r, modified) ==
  /\ runs[r].phase = "fetch"
  /\ runs[r].call \in ExecutedIds(coll)
  /\ IF modified
       THEN /\ nextId <= MaxCalls
            /\ coll' = DriverCall(coll, Entry(nextId, "insert", FALSE, r, coll))
            /\ runs' = [runs EXCEPT ![r].phase = "write", ![r].call = nextId]
            /\ nextId' = nextId + 1
       ELSE /\ runs' = [runs EXCEPT ![r].phase = "tick", ![r].call = 0]
            /\ UNCHANGED <<coll, nextId>>
  /\ UNCHANGED nEvents
  /\ UNCHANGED <<docVars, idxVars, discVars, queryVars>>

\* The store answers the insert of the design document: done(err).
WriteResponseLeak(r, err) ==
  /\ runs[r].phase = "write"
  /\ runs[r].call \in ExecutedIds(coll)
  /\ coll' = IF err THEN coll ELSE done(coll)
  /\ runs' = [runs EXCEPT ![r].phase = "done", ![r].call = 0, ![r].err = err]
  /\ UNCHANGED <<nextId, nEvents>>
  /\ UNCHANGED <<docVars, idxVars, discVars, queryVars>>
WriteResponseRetry(r, err) ==
  /\ runs[r].phase = "write"
  /\ runs[r].call \in ExecutedIds(coll)
  /\ IF err /\ nextId <= MaxCalls
       THEN /\ coll' = DriverCall(coll, Entry(nextId, "insert", FALSE, r, coll))
            /\ runs' = [runs EXCEPT ![r].call = nextId]
            /\ nextId' = nextId + 1
       ELSE /\ coll' = done(coll)
            /\ runs' = [runs EXCEPT ![r].phase = "done", ![r].call = 0,
                                    ![r].err = err]
            /\ UNCHANGED nextId
  /\ UNCHANGED nEvents
  /\ UNCHANGED <<docVars, idxVars, discVars, queryVars>>
WriteResponse(r, err) ==
  /\ runs[r].phase = "write"
  /\ runs[r].call \in ExecutedIds(coll)
  /\ coll' = done(coll)
  /\ runs' = [runs EXCEPT ![r].phase = "done", ![r].call = 0, ![r].err = err]
  /\ UNCHANGED <<nextId, nEvents>>
  /\ UNCHANGED <<docVars, idxVars, discVars, queryVars>>

\* process.nextTick(done)
Tick(r) ==
  /\ runs[r].phase = "tick"
  /\ coll' = done(coll)
  /\ runs' = [runs EXCEPT ![r].phase = "done"]
  /\ UNCHANGED <<nextId, nEvents>>
  /\ UNCHANGED <<docVars, idxVars, discVars, queryVars>>

Next ==
  \/ \E op \in SubmitOps : Submit(op)
  \/ EnsureDbDone
  \/ OpenEvent
  \/ CloseEvent
  \/ \E r \in 1..MaxRuns, nothing \in BOOLEAN : StartRun(r, nothing)
  \/ \E r \in 1..MaxRuns, modified \in BOOLEAN : FetchResponse(r, modified)
  \/ \E r \in 1..MaxRuns, err \in BOOLEAN : WriteResponse(r, err)
  \/ \E r \in 1..MaxRuns : Tick(r)

Spec == Init /\ [][Next]_vars

\* ------------------------------------------------- claims on the queue
Log == coll.executed
Pos == 1..Len(Log)

Occurrences(seq, id) == Cardinality({i \in 1..Len(seq) : seq[i].id = id})
C2_QueuedOnceNeverLost ==
  \A id \in 1..(nextId - 1) :
    Occurrences(coll.queue, id) + Occurrences(Log, id) = 1

\* A flush has executed a call and put an earlier one back in the queue.
C2_Witness ==
  \E i \in Pos, k \in 1..Len(coll.queue) :
    Log[i].sb /\ coll.queue[k].id < Log[i].id

\* C3: an index-gated driver call reaches the store only while
\* ensuringIndexes is zero.
C3_GatedNeverDuringIndexing ==
  \A i \in Pos : Log[i].op \in GatedOps => Log[i].idx = 0

\* A gated call made on an open collection was held back (a later call
\* reached the store before it) and has been executed since.
C3_Witness ==
  \E i, j \in Pos :
    /\ j < i
    /\ Log[i].op \in GatedOps /\ ~Log[i].sb
    /\ Log[j].id > Log[i].id

\* C4: ensuringIndexes is the number of runs between their increment and
\* their done, and is never negative.
C4_CounterCountsActiveRuns ==
  /\ coll.ensuringIndexes = Cardinality({r \in 1..MaxRuns : Active(r)})
  /\ coll.ensuringIndexes >= 0

\* One run has completed with a failed write while another is in progress.
C4_Witness ==
  /\ coll.ensuringIndexes = 1
  /\ \E r \in 1..MaxRuns : runs[r].phase = "done" /\ runs[r].err
  /\ \E r \in 1..MaxRuns : Active(r)

\* C5: at most one ensureDb bootstrap is outstanding at any time.
C5_SingleBootstrapInFlight == coll.pendingDb <= 1

\* A step that makes a call on the collection, and a close event.
CallStep == nextId' = nextId + 1
CloseStep == nEvents' = nEvents + 1 /\ coll'.closed

\* C16: from a close event until onOpen runs again a collection with
\* bufferCommands is buffering, and every call made on it in that time is
\* appended to the queue and not executed; a close event on a collection
\* without bufferCommands leaves buffer, ensuringDb and the queue alone.
C16_CloseBuffersAgain ==
  /\ []((coll.bufferCommands /\ coll.closed) => coll.buffer)
  /\ [][/\ (coll.bufferCommands /\ coll.closed /\ CallStep) =>
              /\ Len(coll'.queue) = Len(coll.queue) + 1
              /\ coll'.queue[Len(coll'.queue)].id = nextId
              /\ coll'.executed = coll.executed
        /\ (CloseStep /\ coll.bufferCommands) => coll'.buffer
        /\ (CloseStep /\ ~coll.bufferCommands) =>
              /\ coll'.buffer = coll.buffer
              /\ coll'.ensuringDb = coll.ensuringDb
              /\ coll'.queue = coll.queue]_vars

\* The collection had opened and executed a call, was closed, and holds a
\* call made after that which waits for nothing but the opening.
C16_Witness ==
  /\ coll.bufferCommands /\ coll.closed /\ coll.buffer
  /\ Len(Log) >= 1
  /\ \E i \in 1..Len(coll.queue) :
       /\ ~coll.queue[i].wait
       /\ \A j \in Pos : coll.queue[i].id > Log[j].id

\* C17: a collection that is not buffering holds no call of a method that
\* is not index-dependent in its queue, whatever ensuringIndexes is (a
\* flush by onOpen leaves none behind), and such a call made while the
\* collection is not buffering is executed in the same step.
C17_NonGatedNeverHeldByIndexing ==
  /\ [](~coll.buffer =>
          \A i \in 1..Len(coll.queue) : coll.queue[i].op \in GatedOps)
  /\ [][(CallStep /\ ~coll.buffer /\ coll'.queue # coll.queue) =>
           coll'.queue[Len(coll'.queue)].op \in GatedOps]_vars

\* During one index synthesis an insert that had been queued was executed
\* by a flush, and another insert was executed as it was made.
C17_Witness ==
  /\ \E i \in Pos : Log[i].op \in NonGatedOps /\ Log[i].run = 0
                     /\ Log[i].sb /\ Log[i].idx > 0
  /\ \E j \in Pos : Log[j].op \in NonGatedOps /\ Log[j].run = 0
                     /\ ~Log[j].sb /\ Log[j].idx > 0

\* Index-dependent driver calls reach the store in the order in which
\* they were made.
GatedInOrder ==
  \A i, j \in Pos :
    (i < j /\ Log[i].op \in GatedOps /\ Log[j].op \in GatedOps) =>
       Log[i].id < Log[j].id

\* A run completes in the step: done is called.
Completes(r) == runs[r].phase # "done" /\ runs'[r].phase = "done"
Ids(seq) == [i \in 1..Len(seq) |-> seq[i].id]

\* C27: the completion of a run that leaves ensuringIndexes above zero
\* sends no queued entry to the store and leaves the queue as it is; the
\* completion that brings it to zero passes over the queue once: on a
\* collection that is not buffering every queued entry goes to the store,
\* once and in queue order, and on a buffering one every entry stays queued.
C27_FlushExactlyAtZero ==
  [][\A r \in 1..MaxRuns : Completes(r) =>
        /\ coll'.ensuringIndexes = coll.ensuringIndexes - 1
        /\ coll'.ensuringIndexes > 0 =>
              coll' = [coll EXCEPT !.ensuringIndexes = @ - 1]
        /\ (coll'.ensuringIndexes = 0 /\ ~coll.buffer) =>
              /\ coll'.queue = <<>>
              /\ Ids(coll'.executed) = Ids(coll.executed) \o Ids(coll.queue)
        /\ (coll'.ensuringIndexes = 0 /\ coll.buffer) =>
              /\ coll'.executed = coll.executed
              /\ Ids(coll'.queue) = Ids(coll.queue)]_vars

\* Two runs overlapped while a gated call submitted before them was
\* queued: the first completion left it queued, the second sent it to the
\* store.
C27_Witness ==
  /\ runs[1].phase = "done" /\ runs[2].phase = "done"
  /\ coll.ensuringIndexes = 0
  /\ \E i, j \in Pos :
       /\ Log[i].run = 2 /\ Log[i].op = "findById" /\ Log[i].idx = 2
       /\ i < j /\ Log[j].wait /\ Log[j].id = 1 /\ Log[j].idx = 0

\* The writes of the design document that run r has issued.
WritesOf(r) ==
  LET all == coll.queue \o coll.executed
  IN Cardinality({i \in 1..Len(all) : all[i].run = r /\ all[i].op = "insert"})
Gated(seq) == {i \in 1..Len(seq) : seq[i].wait}

\* C29: when the write of the design document fails, the run issues no
\* call in that step and never a second write, ensuringIndexes goes down
\* by one, and if that makes it zero the index-gated entries leave the
\* queue of an open collection (on a collection closed meanwhile they
\* stay queued behind a bootstrap whose completion flushes them).
C29_FailedWriteReleasesGate ==
  /\ [](\A r \in 1..MaxRuns : WritesOf(r) <= 1)
  /\ [][\A r \in 1..MaxRuns : (Completes(r) /\ runs'[r].err) =>
          /\ nextId' = nextId
          /\ coll'.ensuringIndexes = coll.ensuringIndexes - 1
          /\ (coll'.ensuringIndexes = 0 /\ ~coll.buffer) =>
                Gated(coll'.queue) = {}
          /\ (coll'.ensuringIndexes = 0 /\ coll.buffer /\ coll.queue # <<>>) =>
                (coll'.ensuringDb /\ coll'.pendingDb > 0)]_vars

\* A gated call waited on an open collection for a run whose write failed
\* and went to the store when the run completed.
C29_Witness ==
  /\ runs[1].phase = "done" /\ runs[1].err
  /\ WritesOf(1) = 1
  /\ coll.ensuringIndexes = 0
  /\ \E i, j \in Pos :
       /\ Log[i].run = 1 /\ Log[i].op = "insert" /\ i < j
       /\ Log[j].wait /\ ~Log[j].sb /\ Log[j].idx = 0

\* --------------------------------------------------- liveness of the queue
\* The driver answers every bootstrap, read and write it is given, and
\* process.nextTick runs its callback: the callbacks of ensureDb, of the
\* findById and the insert of a run, and the deferred done, each happen
\* once they can.  Application calls, run starts and connection events are
\* under no obligation.
Fairness ==
  /\ WF_vars(EnsureDbDone)
  /\ \A r \in 1..MaxRuns :
       /\ WF_vars(\E modified \in BOOLEAN : FetchResponse(r, modified))
       /\ WF_vars(\E err \in BOOLEAN : WriteResponse(r, err))
       /\ WF_vars(Tick(r))
\* The application's calls are the index-gated ones, every run has something
\* to synthesize, and the connection's events are closes: the collection
\* opens by its own bootstraps.
NextLive ==
  \/ Submit("findWithView")
  \/ EnsureDbDone
  \/ CloseEvent
  \/ \E r \in 1..MaxRuns : StartRun(r, FALSE)
  \/ \E r \in 1..MaxRuns, modified \in BOOLEAN : FetchResponse(r, modified)
  \/ \E r \in 1..MaxRuns, err \in BOOLEAN : WriteResponse(r, err)
  \/ \E r \in 1..MaxRuns : Tick(r)
SpecLive == Init /\ [][NextLive]_vars /\ Fairness

\* C30: a call that is in the queue is eventually handed to the store,
\* whatever opens, closes, runs and further calls come in between.
C30_QueuedEventuallyExecuted ==
  \A id \in 1..MaxCalls :
    (id \in QueuedIds(coll)) ~> (id \in ExecutedIds(coll))

\* An index-gated call submitted on the open collection during a run is
\* still queued after the run completed, because the connection closed in
\* between: the flush of done put it back and a bootstrap is outstanding.
C30_Witness ==
  /\ coll.closed /\ coll.buffer
  /\ coll.ensuringIndexes = 0
  /\ \E r \in 1..MaxRuns : runs[r].phase = "done"
  /\ \E i \in 1..Len(coll.queue) : coll.queue[i].wait /\ ~coll.queue[i].sb
  /\ coll.pendingDb > 0

\* A bootstrap completes in the step, and every bootstrap outstanding
\* before the step was started before the latest close: onClose cleared
\* ensuringDb, every start of a bootstrap sets it, and onOpen has not run
\* since the close.
StaleBootstrapCompletes ==
  /\ coll.closed /\ coll.bufferCommands
  /\ ~coll.ensuringDb
  /\ coll'.pendingDb = coll.pendingDb - 1

\* C38: after a close of a buffering collection, the completion of a
\* bootstrap started before the close leaves the collection buffering and
\* sends nothing from the queue to the store.
C38_StaleBootstrapKeepsBuffering ==
  [][StaleBootstrapCompletes =>
        /\ coll'.buffer
        /\ coll'.executed = coll.executed
        /\ coll'.queue = coll.queue]_vars

\* Until onOpen runs after a close, the collection buffers and sends
\* nothing to the store.
BuffersWhileClosed ==
  /\ [](coll.closed /\ coll.bufferCommands => coll.buffer)
  /\ [][(coll.closed /\ coll.bufferCommands /\ coll'.closed) =>
           coll'.executed = coll.executed]_vars

\* The same with functions given to callOrDeferUntilOpen.
NextFn ==
  \/ Next
  \/ \E d \in BOOLEAN : SubmitFn(d)

SpecFn == Init /\ [][NextFn]_vars

\* ------------------------------------------------------------- SpecNest
\* The collection, without close events, with functions that call an
\* index-dependent method while they run.  A step that runs such functions
\* uses up the identities of the calls they made.
SubmitFnCalling(dontWaitForIndexes) ==
  /\ nextId <= MaxCalls
  /\ coll' = callOrDeferUntilOpen(coll,
                 Entry(nextId, "fnCall", ~dontWaitForIndexes, 0, coll))
  /\ nextId' = NextFree(coll')
  /\ UNCHANGED <<runs, nEvents>>
  /\ UNCHANGED <<docVars, idxVars, discVars, queryVars>>

EnsureDbDoneNest ==
  /\ coll.pendingDb > 0
  /\ coll' = onOpen([coll EXCEPT !.pendingDb = @ - 1])
  /\ nextId' = NextFree(coll')
  /\ UNCHANGED <<runs, nEvents>>
  /\ UNCHANGED <<docVars, idxVars, discVars, queryVars>>

OpenEventNest ==
  /\ nEvents < MaxEvents
  /\ coll' = onOpen(coll)
  /\ nEvents' = nEvents + 1
  /\ nextId' = NextFree(coll')
  /\ UNCHANGED runs
  /\ UNCHANGED <<docVars, idxVars, discVars, queryVars>>

WriteResponseNest(r, err) ==
  /\ runs[r].phase = "write"
  /\ runs[r].call \in ExecutedIds(coll)
  /\ coll' = done(coll)
  /\ runs' = [runs EXCEPT ![r].phase = "done", ![r].call = 0, ![r].err = err]
  /\ nextId' = NextFree(coll')
  /\ UNCHANGED nEvents
  /\ UNCHANGED <<docVars, idxVars, discVars, queryVars>>

TickNest(r) ==
  /\ runs[r].phase = "tick"
  /\ coll' = done(coll)
  /\ runs' = [runs EXCEPT ![r].phase = "done"]
  /\ nextId' = NextFree(coll')
  /\ UNCHANGED nEvents
  /\ UNCHANGED <<docVars, idxVars, discVars, queryVars>>

NextNest ==
  \/ \E op \in SubmitOps : Submit(op)
  \/ \E d \in BOOLEAN : SubmitFnCalling(d)
  \/ EnsureDbDoneNest
  \/ OpenEventNest
  \/ \E r \in 1..MaxRuns, nothing \in BOOLEAN : StartRun(r, nothing)
  \/ \E r \in 1..MaxRuns, modified \in BOOLEAN : FetchResponse(r, modified)
  \/ \E r \in 1..MaxRuns, err \in BOOLEAN : WriteResponseNest(r, err)
  \/ \E r \in 1..MaxRuns : TickNest(r)

SpecNest == Init /\ [][NextNest]_vars

\* C26: index-dependent calls on the collection reach the store in the
\* order in which they were made, whatever flushes re-queued them, also
\* those made by an entry that a flush executed.
C26_GatedInSubmissionOrder ==
  \A i, j \in Pos :
    (i < j /\ Log[i].op \in GatedOps /\ Log[j].op \in GatedOps) =>
       Log[i].id < Log[j].id

\* -------------------------------------------------------------- SpecDoc
InitDoc ==
  /\ coll = NewCollection(TRUE)
  /\ runs = [r \in 1..MaxRuns |-> NoRun]
  /\ nextId = 1
  /\ nEvents = 0
  /\ doc \in {NewDocument(n) : n \in BOOLEAN}
             \cup {[NewDocument(TRUE) EXCEPT !.id = ""]}
  /\ saves = <<>>
  /\ removes = <<>>
  /\ promises = <<>>
  /\ schema = PlainSchema
  /\ design = NoDesign
  /\ model = NewModel
  /\ idx = NewIdx
  /\ schemas = NoSchemas
  /\ models = <<>>
  /\ lastCall = NoCall
  /\ lookup = NoLookup
  /\ listing = NoListing
  /\ flat = NoFlat

\* Model.prototype.save
SaveKeepInserting ==
  /\ Len(saves) < MaxSaves
  /\ saves' = Append(saves, [path |-> IF doc.isNew THEN "new" ELSE "update",
                             id |-> doc.id, status |-> "inflight",
                             notified |-> 0, seen |-> NumResolved,
                             result |-> NoResult])
  /\ doc' = IF doc.isNew
              THEN [doc EXCEPT !.isNew = FALSE, !.inserting = TRUE]
              ELSE doc
  /\ UNCHANGED <<removes, promises, collVars, idxVars, discVars, queryVars>>
Save ==
  /\ Len(saves) < MaxSaves
  /\ saves' = Append(saves, [path |-> IF doc.isNew THEN "new" ELSE "update",
                             id |-> doc.id, status |-> "inflight",
                             notified |-> 0, seen |-> NumResolved,
                             result |-> NoResult])
  /\ doc' = IF doc.isNew
              THEN [doc EXCEPT !.isNew = FALSE, !.inserting = TRUE]
              ELSE [doc EXCEPT !.inserting = FALSE]
  /\ UNCHANGED <<removes, promises, collVars, idxVars, discVars, queryVars>>

\* handleSave: the store answers the insert of save k.
SaveResponseNoRetry(k, err) ==
  /\ saves[k].status = "inflight"
  /\ IF err
       THEN /\ saves' = [saves EXCEPT ![k].status = "err", ![k].notified = @ + 1]
            /\ UNCHANGED doc
       ELSE /\ doc' = [doc EXCEPT !.id = StoreResult(k).id,
                                  !.rev = StoreResult(k).rev]
            /\ saves' = [saves EXCEPT ![k].status = "ok", ![k].notified = @ + 1,
                                      ![k].result = StoreResult(k)]
  /\ UNCHANGED <<removes, promises, collVars, idxVars, discVars, queryVars>>
SaveResponseNoAdopt(k, err) ==
  /\ saves[k].status = "inflight"
  /\ IF err
       THEN /\ doc' = IF doc.inserting THEN [doc EXCEPT !.isNew = TRUE] ELSE doc
            /\ saves' = [saves EXCEPT ![k].status = "err", ![k].notified = @ + 1]
       ELSE /\ UNCHANGED doc
            /\ saves' = [saves EXCEPT ![k].status = "ok", ![k].notified = @ + 1,
                                      ![k].result = StoreResult(k)]
  /\ UNCHANGED <<removes, promises, collVars, idxVars, discVars, queryVars>>
SaveResponseAlwaysSecondChance(k, err) ==
  /\ saves[k].status = "inflight"
  /\ IF err
       THEN /\ doc' = [doc EXCEPT !.isNew = TRUE]
            /\ saves' = [saves EXCEPT ![k].status = "err", ![k].notified = @ + 1]
       ELSE /\ doc' = [doc EXCEPT !.id = StoreResult(k).id,
                                  !.rev = StoreResult(k).rev]
            /\ saves' = [saves EXCEPT ![k].status = "ok", ![k].notified = @ + 1,
                                      ![k].result = StoreResult(k)]
  /\ UNCHANGED <<removes, promises, collVars, idxVars, discVars, queryVars>>
SaveResponse(k, err) ==
  /\ saves[k].status = "inflight"
  /\ IF err
       THEN /\ doc' = IF doc.inserting THEN [doc EXCEPT !.isNew = TRUE] ELSE doc
            /\ saves' = [saves EXCEPT ![k].status = "err", ![k].notified = @ + 1]
       ELSE /\ doc' = [doc EXCEPT !.id = StoreResult(k).id,
                                  !.rev = StoreResult(k).rev]
            /\ saves' = [saves EXCEPT ![k].status = "ok", ![k].notified = @ + 1,
                                      ![k].result = StoreResult(k)]
  /\ UNCHANGED <<removes, promises, collVars, idxVars, discVars, queryVars>>

\* Model.prototype.remove
RemoveNoCoalesce ==
  /\ Len(removes) < MaxRemoves
  /\ promises' = Append(promises, "pending")
  /\ doc' = [doc EXCEPT !.removing = Len(promises) + 1]
  /\ removes' = Append(removes, [p |-> Len(promises) + 1, issued |-> TRUE,
                                 during |-> doc.removing, fired |-> 0,
                                 outcome |-> "none"])
  /\ UNCHANGED <<saves, collVars, idxVars, discVars, queryVars>>
Remove ==
  /\ Len(removes) < MaxRemoves
  /\ IF doc.removing # 0
       THEN /\ removes' = Append(removes, PromiseAddBack(doc.removing))
            /\ UNCHANGED <<doc, promises>>
       ELSE /\ promises' = Append(promises, "pending")
            /\ doc' = [doc EXCEPT !.removing = Len(promises) + 1]
            /\ removes' = Append(removes, [p |-> Len(promises) + 1,
                                           issued |-> TRUE, during |-> 0,
                                           fired |-> 0, outcome |-> "none"])
  /\ UNCHANGED <<saves, collVars, idxVars, discVars, queryVars>>

\* The callback of collection.remove for the delete of promise p.
RemoveResponseClearAlways(p, err) ==
  /\ p \in 1..Len(promises)
  /\ promises[p] = "pending"
  /\ promises' = [promises EXCEPT ![p] = IF err THEN "err" ELSE "ok"]
  /\ removes' = PromiseResolve(p, IF err THEN "err" ELSE "ok")
  /\ doc' = [doc EXCEPT !.removing = 0]
  /\ UNCHANGED <<saves, collVars, idxVars, discVars, queryVars>>
RemoveResponse(p, err) ==
  /\ p \in 1..Len(promises)
  /\ promises[p] = "pending"
  /\ promises' = [promises EXCEPT ![p] = IF err THEN "err" ELSE "ok"]
  /\ removes' = PromiseResolve(p, IF err THEN "err" ELSE "ok")
  /\ doc' = IF err THEN [doc EXCEPT !.removing = 0] ELSE doc
  /\ UNCHANGED <<saves, collVars, idxVars, discVars, queryVars>>

NextDoc ==
  \/ Save
  \/ \E k \in 1..MaxSaves, err \in BOOLEAN : k <= Len(saves) /\ SaveResponse(k, err)
  \/ Remove
  \/ \E p \in 1..MaxRemoves, err \in BOOLEAN : RemoveResponse(p, err)

SpecDoc == InitDoc /\ [][NextDoc]_vars

\* ------------------------------------------- claims on save and remove
\* C8: when the first save of a new instance has failed and the failure
\* has been delivered, isNew is true again; the save made after that
\* takes the new-document path and submits an insert for the same
\* identifier.
C8_InsertRetry ==
  (Len(saves) >= 1 /\ saves[1].path = "new" /\ saves[1].status = "err") =>
     /\ Len(saves) = 1 => doc.isNew
     /\ (Len(saves) >= 2 /\ saves[2].seen >= 1) =>
          (saves[2].path = "new" /\ saves[2].id = saves[1].id)

\* The first save failed and a second save has been made after it.
C8_Witness ==
  /\ Len(saves) >= 2
  /\ saves[1].path = "new" /\ saves[1].status = "err"
  /\ saves[2].seen = 1 /\ saves[2].path = "new"
  /\ ~doc.isNew /\ doc.inserting

\* C11: a save in flight has notified nothing and a resolved one has
\* notified exactly once; the step that delivers a success leaves the
\* instance with the id and revision the store returned, the step that
\* delivers a failure leaves id and revision as they were.
C11_SaveNotifiesOnce ==
  /\ [](\A k \in 1..Len(saves) :
          saves[k].notified = (IF saves[k].status = "inflight" THEN 0 ELSE 1))
  /\ [][\A k \in 1..Len(saves) :
          /\ (saves[k].status = "inflight" /\ saves'[k].status = "ok") =>
                /\ doc'.id = saves'[k].result.id
                /\ doc'.rev = saves'[k].result.rev
                /\ saves'[k].result.id # ""
                /\ saves'[k].result.rev > doc.rev
          /\ (saves[k].status = "inflight" /\ saves'[k].status = "err") =>
                (doc'.id = doc.id /\ doc'.rev = doc.rev)]_vars

\* A save that the store gave an id has succeeded and another has failed.
C11_Witness ==
  /\ \E k \in 1..Len(saves) :
       /\ saves[k].status = "ok" /\ saves[k].id = ""
       /\ saves[k].result.id = "assigned" /\ saves[k].notified = 1
       /\ doc.id = "assigned"
  /\ \E k \in 1..Len(saves) : saves[k].status = "err" /\ saves[k].notified = 1

\* C9: a remove call made while a removal of the instance is unresolved
\* issues no delete (the removal it joins has issued exactly one), and
\* when that removal resolves both completions have fired once, with the
\* same outcome; before, neither has fired.
DeletesOf(p) == Cardinality({i \in 1..Len(removes) : removes[i].p = p /\ removes[i].issued})
C9_RemovalCoalescing ==
  \A a, b \in 1..Len(removes) :
    (a < b /\ removes[b].during # 0 /\ removes[b].during = removes[a].p) =>
       /\ ~removes[b].issued
       /\ removes[b].p = removes[a].p
       /\ DeletesOf(removes[a].p) = 1
       /\ removes[a].fired = removes[b].fired
       /\ removes[a].outcome = removes[b].outcome
       /\ removes[a].fired = (IF promises[removes[a].p] = "pending" THEN 0 ELSE 1)
       /\ removes[a].outcome =
            (IF promises[removes[a].p] = "pending" THEN "none"
             ELSE promises[removes[a].p])

\* Two overlapping remove calls, resolved by one failed delete.
C9_Witness ==
  /\ Len(removes) >= 2
  /\ removes[1].issued /\ removes[2].during = removes[1].p
  /\ promises[removes[1].p] = "err"
  /\ removes[1].fired = 1 /\ removes[2].fired = 1
  /\ removes[2].outcome = "err"

\* -------------------------------------------------------------- SpecIdx
InitIdx ==
  /\ coll = NewCollection(TRUE)
  /\ runs = [r \in 1..MaxRuns |-> NoRun]
  /\ nextId = 1
  /\ nEvents = 0
  /\ doc = NewDocument(TRUE)
  /\ saves = <<>>
  /\ removes = <<>>
  /\ promises = <<>>
  /\ schema \in {s \in Schemas : /\ (s.forcePlainDiscriminatorIndex => IsVariant(s))
                                  /\ (s.mapping = "root" => ~s.autoIndex)}
  /\ design \in Designs
  /\ model = IF schema.mapping = "root" THEN RootWithDiscriminators ELSE NewModel
  /\ idx = NewIdx
  /\ schemas = NoSchemas
  /\ models = <<>>
  /\ lastCall = NoCall
  /\ lookup = NoLookup
  /\ listing = NoListing
  /\ flat = NoFlat

\* Model.ensureIndexes, lines 398-465, as run r, on the collection: the
\* throw, the early return, or the counter and the findById.
ensureIndexes(r) ==
  IF Prologue(schema).threw # "none"
    THEN UNCHANGED <<coll, runs, nextId>>
    ELSE IF Prologue(schema).nothing
      THEN /\ runs' = [runs EXCEPT ![r].phase = "skipped"]
           /\ UNCHANGED <<coll, nextId>>
      ELSE /\ coll' = DriverCall([coll EXCEPT !.ensuringIndexes = @ + 1],
                        Entry(nextId, "findById", FALSE, r, coll))
           /\ runs' = [runs EXCEPT ![r].phase = "fetch", ![r].call = nextId]
           /\ nextId' = nextId + 1

\* this.defaultView after a call of ensureIndexes (line 441).
DefaultViewAfter(m) ==
  IF Prologue(schema).threw = "none" /\ ~Prologue(schema).nothing
    THEN Prologue(schema).defaultView
    ELSE m.defaultView

\* Mongoose.prototype.model(name, schema, collection, skipInit): the schema
\* is cached, the model compiled, init calls ensureIndexes when autoIndex is
\* set, and the model is registered if nothing threw.
Register(skipInit) ==
  /\ ~model.attempted
  /\ LET init == ~skipInit /\ schema.autoIndex
         threw == IF init THEN Prologue(schema).threw ELSE "none"
     IN /\ model' = [attempted |-> TRUE, init |-> init, cached |-> TRUE,
                     registered |-> threw = "none", threw |-> threw,
                     defaultView |-> IF init THEN DefaultViewAfter(model)
                                     ELSE model.defaultView]
        /\ IF init THEN ensureIndexes(1) ELSE UNCHANGED <<coll, runs, nextId>>
  /\ UNCHANGED <<discVars, queryVars, nEvents, docVars, schema, design, idx>>

\* The application calls Model.ensureIndexes() on the registered model,
\* after the run before it has completed.
IdxStart(r) ==
  /\ model.registered
  /\ model.threw = "none"
  /\ runs[r].phase = "none"
  /\ \A q \in 1..(r - 1) : runs[q].phase \in {"done", "skipped"}
  /\ model' = [model EXCEPT !.threw = Prologue(schema).threw,
                            !.defaultView = DefaultViewAfter(model)]
  /\ ensureIndexes(r)
  /\ UNCHANGED <<discVars, queryVars, nEvents, docVars, schema, design, idx>>

\* The store answers the findById (err: the request failed); the callback
\* diffs the design document and inserts it if modified.
IdxFetchResponse(r, err) ==
  /\ runs[r].phase = "fetch"
  /\ runs[r].call \in ExecutedIds(coll)
  /\ LET syn == Synthesize(schema, IF err THEN NoDesign ELSE design)
     IN /\ schema' = [schema EXCEPT !.lists = syn.lists]
        /\ IF syn.modified
             THEN /\ coll' = DriverCall(coll, Entry(nextId, "insert", FALSE, r, coll))
                  /\ runs' = [runs EXCEPT ![r].phase = "write", ![r].call = nextId]
                  /\ nextId' = nextId + 1
                  /\ idx' = [idx EXCEPT !.fetchErr[r] = err,
                                        !.writes[r] = @ + 1,
                                        !.doc = syn.design,
                                        !.got = IF err THEN NoDesign ELSE design]
             ELSE /\ runs' = [runs EXCEPT ![r].phase = "tick", ![r].call = 0]
                  /\ idx' = [idx EXCEPT !.fetchErr[r] = err,
                                        !.got = IF err THEN NoDesign ELSE design]
                  /\ UNCHANGED <<coll, nextId>>
  /\ UNCHANGED <<discVars, queryVars, nEvents, docVars, design, model>>

\* The store answers the insert of the design document: done(err).  A
\* document written without the revision of the stored one is refused.
IdxWriteResponse(r, err) ==
  /\ runs[r].phase = "write"
  /\ runs[r].call \in ExecutedIds(coll)
  /\ (idx.fetchErr[r] /\ design.exists) => err
  /\ design' = IF err THEN design ELSE idx.doc
  /\ idx' = [idx EXCEPT !.stored = IF err THEN @ ELSE @ + 1,
                        !.events[r] = Append(@, err),
                        !.seen[r] = Append(@, emitIndex(coll))]
  /\ coll' = done(coll)
  /\ runs' = [runs EXCEPT ![r].phase = "done", ![r].call = 0, ![r].err = err]
  /\ UNCHANGED <<discVars, queryVars, nextId, nEvents, docVars, schema, model>>

\* The application uses the collection before the model is registered.
SubmitEarly(op) ==
  /\ ~model.attempted
  /\ nextId = 1
  /\ Submit(op)

\* process.nextTick(done): done() with no error.
IdxTick(r) ==
  /\ runs[r].phase = "tick"
  /\ coll' = done(coll)
  /\ runs' = [runs EXCEPT ![r].phase = "done"]
  /\ idx' = [idx EXCEPT !.events[r] = Append(@, FALSE),
                        !.seen[r] = Append(@, emitIndex(coll))]
  /\ UNCHANGED <<discVars, queryVars, nextId, nEvents, docVars, schema, design, model>>

NextIdx ==
  \/ \E op \in SubmitOps : SubmitEarly(op)
  \/ EnsureDbDone
  \/ \E skipInit \in BOOLEAN : Register(skipInit)
  \/ \E r \in 1..MaxRuns : IdxStart(r)
  \/ \E r \in 1..MaxRuns, err \in BOOLEAN : IdxFetchResponse(r, err)
  \/ \E r \in 1..MaxRuns, err \in BOOLEAN : IdxWriteResponse(r, err)
  \/ \E r \in 1..MaxRuns : IdxTick(r)

SpecIdx == InitIdx /\ [][NextIdx]_vars

\* ------------------------------------------- claims on index synthesis
\* C6: a second ensureIndexes run, started after the first completed
\* successfully and with the schema as the application declared it,
\* issues no write of the design document.
C6_SecondRunWritesNothing ==
  (/\ runs[1].phase = "done" /\ ~runs[1].err
   /\ ~idx.fetchErr[1] /\ ~idx.fetchErr[2]) => idx.writes[2] = 0

\* Running a map function on a document tagged kind: the statements in
\* their order, a guard for another kind returning before the emit.
Yields(text, kind) ==
  \E i \in 1..Len(text) :
    /\ text[i].t = "emit"
    /\ \A j \in 1..(i - 1) : ~(text[j].t = "guard" /\ text[j].m # kind)

\* C7: once ensureIndexes has written the design document of a variant,
\* none of its views yields a document tagged as the sibling variant.
C7_VariantViewsGuarded ==
  (IsVariant(schema) /\ idx.stored > 0 /\ design.views.def) =>
     \A v \in DOMAIN design.views.m :
        "map" \in DOMAIN design.views.m[v] =>
           ~Yields(design.views.m[v].map, Sibling)

RegisterStep == ~model.attempted /\ model'.attempted
NoPartialState ==
  /\ coll' = coll
  /\ runs' = runs
  /\ nextId' = nextId
  /\ design' = design

\* C10 (as stated): registering a schema with two views marked as the
\* default index fails, no call reaches the collection, its counter and
\* queue stay as they were, and the model is not registered.
C10_RegistrationFails ==
  [][(RegisterStep /\ Cardinality(DefaultViews(schema)) > 1) =>
       (/\ model'.threw = "config"
        /\ ~model'.registered
        /\ NoPartialState)]_vars

\* When the registration runs ensureIndexes (autoIndex set, init not
\* skipped) it does fail that way; otherwise the model is registered and
\* the first ensureIndexes call on it throws; neither touches the
\* collection, the runs or the store.
RegistrationWithInitFails ==
  [][(Cardinality(DefaultViews(schema)) > 1 /\ schema.mapping # "root") =>
       /\ RegisterStep =>
            /\ model'.init => (model'.threw = "config" /\ ~model'.registered)
            /\ ~model'.init => (model'.threw = "none" /\ model'.registered)
            /\ NoPartialState
       /\ (model.registered /\ model' # model) =>
            (model'.threw = "config" /\ NoPartialState)]_vars

FailedRegistrationReached ==
  /\ Cardinality(DefaultViews(schema)) > 1
  /\ model.attempted /\ model.init
  /\ model.threw = "config"
  /\ ~model.registered
  /\ Len(coll.queue) > 0

\* C12: once ensureIndexes has been called on a model whose schema marks
\* exactly one custom view as the default index, the model's defaultView
\* names that view in the design document of the schema ("$root" for a
\* root, the variant's collection name for a variant).
EnsureIndexesCalled == runs[1].phase # "none" \/ model.threw # "none"
C12_ExplicitDefaultIsDefaultView ==
  (Cardinality(DefaultViews(schema)) = 1 /\ EnsureIndexesCalled) =>
     model.defaultView =
        View(IF IsVariant(schema) THEN toCollectionName(schema.value) ELSE "$root",
             CHOOSE k \in DefaultViews(schema) : TRUE)

\* C13: a call of ensureIndexes that has completed (done has run, or the
\* call returned early with nothing to synthesize) has emitted exactly one
\* 'index' event, carrying the error of the write if there was one; no
\* call emits more than one.
C13_OneIndexEventPerCall ==
  \A r \in 1..MaxRuns :
    /\ Len(idx.events[r]) <= 1
    /\ runs[r].phase \in {"done", "skipped"} =>
         (Len(idx.events[r]) = 1 /\ idx.events[r][1] = runs[r].err)

\* The last run has completed, without error in its fetch or its write.
CompletedCleanly(r) ==
  /\ runs[r].phase = "done"
  /\ ~runs[r].err
  /\ ~idx.fetchErr[r]
  /\ r < MaxRuns => runs[r + 1].phase = "none"

\* What the schema requires of the design document: each view with the
\* definition built for it, each update and list with its text.
HasRequiredViews(d) ==
  \A i \in 1..Len(Items(schema)) :
    /\ d.views.def
    /\ Items(schema)[i].viewName \in DOMAIN d.views.m
    /\ d.views.m[Items(schema)[i].viewName] = Items(schema)[i].def
HasRequired(d, required) ==
  required.def =>
    /\ d.def
    /\ \A k \in DOMAIN required.m : k \in DOMAIN d.m /\ d.m[k] = required.m[k]

\* C14: after a run that completed without error the stored design
\* document holds every required view (map and reduce), update and list
\* with the required text.
C14_RequiredDefinitionsStored ==
  \A r \in 1..MaxRuns :
    CompletedCleanly(r) =>
      /\ HasRequiredViews(design)
      /\ HasRequired(design.updates, schema.updates)
      /\ HasRequired(design.lists, schema.lists)

RequiredViewNames == {Items(schema)[i].viewName : i \in 1..Len(Items(schema))}
OnlyRequired(d, required) ==
  d.def => (required.def /\ DOMAIN d.m \subseteq DOMAIN required.m)

InitDisc ==
  /\ coll = NewCollection(TRUE)
  /\ runs = [r \in 1..MaxRuns |-> NoRun]
  /\ nextId = 1
  /\ nEvents = 0
  /\ doc = NewDocument(TRUE)
  /\ saves = <<>>
  /\ removes = <<>>
  /\ promises = <<>>
  /\ schema = PlainSchema
  /\ design = NoDesign
  /\ model = NewModel
  /\ idx = NewIdx
  /\ \E ro \in RootOptions, co \in ChildOptions, cp \in ChildPaths :
       schemas = [i \in SchemaIds |->
                    IF i = "T" THEN NewSchema(i, cp, co)
                    ELSE NewSchema(i, RootPaths, ro)]
  /\ models = <<compile("NamedEntity", "S", "entities"),
                compile("Other", "U", "others")>>
  /\ lastCall = NoCall
  /\ lookup = NoLookup
  /\ listing = NoListing
  /\ flat = NoFlat

\* Model.discriminator(name, schema) on model m, lines 246-341.  The model
\* compiled at line 337 is taken as compiled; what db.model can throw is
\* the subject of Register.
Discriminator(m, name, sc) ==
  LET base == models[m].schema
      s1 == [schemas EXCEPT ![sc].options = copyOptions(@, schemas[base].options)]
      s2 == mergeSchemas(s1, sc, base, name)
      s3 == markRoot(s2, base)
      known == IF models[m].discriminators.def
               THEN DOMAIN models[m].discriminators.m ELSE {}
      threw == IF rootCheck(schemas, base) THEN "root"
               ELSE IF keyCheck(schemas, base, sc) THEN "key"
               ELSE IF validateOptions(s1[sc].options, s1[base].options) THEN "options"
               ELSE IF name \in known THEN "name"
               ELSE "none"
      new == Len(models) + 1
  IN /\ lastCall.n < MaxDiscriminators
     /\ lastCall' = [n |-> lastCall.n + 1, model |-> m, name |-> name,
                     schema |-> sc, threw |-> threw]
     /\ schemas' = CASE threw \in {"root", "key"} -> schemas
                     [] threw = "options" -> s1
                     [] OTHER -> s3
     /\ models' =
          CASE threw \in {"root", "key", "options"} -> models
            [] threw = "name" -> [models EXCEPT ![m].discriminators.def = TRUE]
            [] OTHER ->
                 Append([models EXCEPT ![m].discriminators =
                           [def |-> TRUE,
                            m |-> [k \in known \cup {name} |->
                                     IF k = name THEN new
                                     ELSE models[m].discriminators.m[k]]]],
                        compile(name, sc, models[m].collection))
     /\ UNCHANGED <<collVars, docVars, idxVars, queryVars>>

NextDisc ==
  \E m \in 1..Len(models), name \in DiscriminatorNames, sc \in SchemaIds :
    Discriminator(m, name, sc)

SpecDisc == InitDisc /\ [][NextDisc]_vars

\* A Model.discriminator call is made in the step.
DiscStep == lastCall'.n = lastCall.n + 1

\* The model the call is made on, its schema, and the schema it is given.
CallBase == models[lastCall'.model].schema
CallSchema == lastCall'.schema
HasDiscriminators(m) ==
  models[m].discriminators.def /\ DOMAIN models[m].discriminators.m # {}

\* A call on a model whose schema is a derived schema throws and changes
\* neither a schema nor a model.
DerivedModelRefuses ==
  [][(DiscStep /\ schemas[CallBase].mapping = "variant") =>
        /\ lastCall'.threw = "root"
        /\ schemas' = schemas
        /\ models' = models]_vars

\* C18: Model.discriminator on a model whose schema is a derived schema
\* fails, and no model whose schema has discriminatorMapping.isRoot = false
\* has a non-empty discriminators mapping.
C18_SingleLevelHierarchy ==
  /\ DerivedModelRefuses
  /\ [](\A m \in 1..Len(models) :
          schemas[models[m].schema].mapping = "variant" => ~HasDiscriminators(m))

\* Two options objects differ in an option that is not customizable: it is
\* on one side only, or on both with different values.
DiffersOutside(a, b) ==
  \E k \in (DOMAIN a \cup DOMAIN b) \ CustomizableOptions :
    \/ (k \in DOMAIN a) # (k \in DOMAIN b)
    \/ k \in DOMAIN a /\ k \in DOMAIN b /\ a[k] # b[k]

\* C19: a call that passes the root and key checks fails on the options
\* check exactly when the given schema's options, after collection,
\* autoIndex and disableCache were taken from the root, differ from the
\* root's in an option outside the customizable subset.
C19_OptionsCheck ==
  [][(DiscStep /\ lastCall'.threw \notin {"root", "key"}) =>
        LET b == schemas[CallBase].options
            a == copyOptions(schemas[CallSchema].options, b)
        IN (lastCall'.threw = "options") <=> DiffersOutside(a, b)]_vars

\* C20: a call whose schema already has a path named like the discriminator
\* key of the model's schema fails, and no Schema object and no model (so
\* no discriminators mapping) is changed by it.
C20_KeyPathRefused ==
  [][(DiscStep /\ schemas[CallBase].options["discriminatorKey"]
                     \in DOMAIN schemas[CallSchema].paths) =>
        /\ lastCall'.threw \in {"root", "key"}
        /\ schemas' = schemas
        /\ models' = models]_vars

\* A schema that was never derived and declares $kind was refused by a
\* model that already has a discriminator.
C20_Witness ==
  /\ lastCall.threw = "key"
  /\ schemas[lastCall.schema].mapping = "none"
  /\ HasDiscriminators(lastCall.model)

\* C21: after a successful call that gives a schema other than the model's
\* own, the schema given has the root's and its own fields, its own
\* descriptor where both declare a name, the key field with the variant
\* name as default, the mapping {key, value: name, isRoot: false} and the
\* root's hooks followed by its own; the root's mapping is
\* {key, value: null, isRoot: true}.
C21_MergedSchema ==
  [][(DiscStep /\ lastCall'.threw = "none" /\ CallSchema # CallBase) =>
        LET r == schemas[CallBase]
            c == schemas[CallSchema]
            key == r.options["discriminatorKey"]
            merged == schemas'[CallSchema]
            root == schemas'[CallBase]
        IN /\ DOMAIN merged.paths = DOMAIN r.paths \cup DOMAIN c.paths \cup {key}
           /\ \A f \in DOMAIN c.paths \ {key} : merged.paths[f] = c.paths[f]
           /\ \A f \in DOMAIN r.paths \ (DOMAIN c.paths \cup {key}) :
                merged.paths[f] = r.paths[f]
           /\ merged.paths[key] = KeyField(lastCall'.name)
           /\ merged.mapping = "variant" /\ merged.key = key
           /\ merged.value = lastCall'.name
           /\ merged.callQueue = r.callQueue \o c.callQueue
           /\ root.mapping = "root" /\ root.key = key /\ root.value = ""]_vars

\* T, which declares name as S does, was registered as User on NamedEntity.
C21_Witness ==
  /\ lastCall.threw = "none" /\ lastCall.schema = "T" /\ lastCall.model = 1
  /\ schemas["T"].paths["name"] = Field("T")
  /\ schemas["T"].paths["displayName"] = Field("S")
  /\ schemas["T"].paths["$kind"] = KeyField(lastCall.name)
  /\ schemas["T"].callQueue = <<"S", "T">>
  /\ schemas["S"].mapping = "root"

\* ------------------------------------------------------------ SpecQuery
InitQuery ==
  /\ coll = NewCollection(TRUE)
  /\ runs = [r \in 1..MaxRuns |-> NoRun]
  /\ nextId = 1
  /\ nEvents = 0
  /\ doc = NewDocument(TRUE)
  /\ saves = <<>>
  /\ removes = <<>>
  /\ promises = <<>>
  /\ schema = PlainSchema
  /\ design = NoDesign
  /\ model = NewModel
  /\ idx = NewIdx
  /\ schemas = NoSchemas
  /\ models = <<>>
  /\ lastCall = NoCall
  /\ \E e \in {"model", "collection"}, o \in OptionForms, se \in BOOLEAN, d \in BOOLEAN :
       lookup = [entry |-> e, opts |-> o, storeErr |-> se, deleted |-> d,
                 result |-> "pending"]
  /\ \E cb \in BOOLEAN, dv \in BOOLEAN, err \in BOOLEAN :
     \E a \in RowLists(cb) :
       listing = [rows |-> a, callback |-> cb, defaultView |-> dv, err |-> err,
                  state |-> "pending", objs |-> <<>>]
  /\ flat = NoFlat

\* The store answers the findById call.
FindByIdResponse ==
  /\ lookup.result = "pending"
  /\ lookup' = [lookup EXCEPT !.result =
                  IF lookup.entry = "model"
                  THEN ModelFindById(lookup.opts, lookup.storeErr, lookup.deleted)
                  ELSE CradleFindById(lookup.opts, lookup.storeErr, lookup.deleted)]
  /\ UNCHANGED <<collVars, docVars, idxVars, discVars, listing, flat>>

\* The store answers the listing or view query of Model.find.
FindResponse ==
  /\ listing.state = "pending"
  /\ listing' =
       IF listing.err
       THEN [listing EXCEPT !.state = "rejected"]
       ELSE [listing EXCEPT !.state = "fulfilled",
                            !.objs = transform(listing.rows, listing.callback,
                                               listing.defaultView)]
  /\ UNCHANGED <<collVars, docVars, idxVars, discVars, lookup, flat>>

NextQuery == FindByIdResponse \/ FindResponse

SpecQuery == InitQuery /\ [][NextQuery]_vars

\* A findById through Model.findById of a record carrying _deleted gives
\* not-found unless returnDeleted is set.
ModelLookupHidesDeleted ==
  (lookup.entry = "model" /\ lookup.result \notin {"pending", "none"}
    /\ ~lookup.storeErr /\ lookup.deleted) =>
     lookup.result = IF ReturnDeleted(lookup.opts) THEN "record" ELSE "not_found"

\* C22: a findById of a record carrying _deleted gives not-found unless
\* returnDeleted is set, and the record with it, whether the call has an
\* options argument or not.
C22_DeletedNotFound ==
  (lookup.result \notin {"pending", "none"} /\ ~lookup.storeErr /\ lookup.deleted) =>
     lookup.result = IF ReturnDeleted(lookup.opts) THEN "record" ELSE "not_found"

\* C25: Model.find on a model without a default view fulfils with the
\* listing's rows whose identifier does not start with '_', in their order,
\* as {_id, _rev} without a callback and as the rows' documents with one;
\* on a model with a default view it fulfils with the rows as answered.
Kept(a) == SelectSeq(a, LAMBDA row : ~Internal(row))
C25_FindNormalizes ==
  listing.state = "fulfilled" =>
    LET a == listing.rows
        k == Kept(a)
    IN IF listing.defaultView THEN listing.objs = a
       ELSE /\ Len(listing.objs) = Len(k)
            /\ \A i \in 1..Len(k) :
                 listing.objs[i] =
                   IF listing.callback THEN k[i].doc
                   ELSE [_id |-> k[i].id, _rev |-> k[i].value.rev]

\* A listing with an internal row between two others, on a model without
\* a default view, came back as two rows.
C25_Witness ==
  /\ listing.state = "fulfilled" /\ ~listing.defaultView
  /\ Len(listing.rows) = 3 /\ Len(listing.objs) = 2
  /\ Internal(listing.rows[2])
  /\ listing.rows[1].id # listing.rows[3].id

\* A failed write of the design document is the err of the run's 'index'
\* event.
WriteFailureCarried ==
  \A r \in 1..MaxRuns :
    (runs[r].phase = "done" /\ runs[r].err) => idx.events[r] = <<TRUE>>

\* C23: a run whose fetch of the design document or whose write failed has
\* completed with one 'index' event that carries an error.
C23_FailureCarriedByIndexEvent ==
  \A r \in 1..MaxRuns :
    (runs[r].phase = "done" /\ (idx.fetchErr[r] \/ runs[r].err)) =>
       idx.events[r] = <<TRUE>>

\* C24: once ensureIndexes has been called on a variant whose schema marks
\* no custom view as default: with no indexed field and no custom view, or
\* with forcePlainDiscriminatorIndex, defaultView is by_id in the variant's
\* design document and a run that completed cleanly has stored that view;
\* otherwise, with exactly one indexed field, defaultView is that field's
\* view in the variant's design document.
C24_VariantImpliedDefault ==
  (IsVariant(schema) /\ DefaultViews(schema) = {} /\ EnsureIndexesCalled) =>
     LET ix == indexes(schema)
         ddoc == toCollectionName(schema.value)
     IN IF (Len(ix) = 0 /\ ~schema.views.def) \/ schema.forcePlainDiscriminatorIndex
        THEN /\ model.defaultView = View(ddoc, "by_id")
             /\ \A r \in 1..MaxRuns :
                  CompletedCleanly(r) =>
                     /\ design.views.def
                     /\ "by_id" \in DOMAIN design.views.m
                     /\ design.views.m["by_id"] = IndexDef(schema, "_id")
        ELSE Len(ix) = 1 => model.defaultView = View(ddoc, byName(ix[1]))

\* A variant with forcePlainDiscriminatorIndex and displayName as its only
\* indexed field has completed a run that stored by_id.
C24_Witness ==
  /\ IsVariant(schema) /\ DefaultViews(schema) = {}
  /\ schema.forcePlainDiscriminatorIndex /\ Len(indexes(schema)) = 1
  /\ CompletedCleanly(1)
  /\ idx.writes[1] = 1
  /\ model.defaultView = View("users", "by_id")

\* C28: when a run completes, the listener of its 'index' notification
\* finds ensuringIndexes already decremented and, if it reached zero on
\* an open collection, no index-gated entry left in the queue.
C28_ListenerSeesCompletedState ==
  [][\A r \in 1..MaxRuns :
       Len(idx'.events[r]) > Len(idx.events[r]) =>
         LET s == idx'.seen[r][Len(idx'.seen[r])]
         IN /\ s.ensuringIndexes = coll'.ensuringIndexes
            /\ (coll'.ensuringIndexes = 0 /\ ~coll.buffer) => s.gated = 0]_vars

\* The decrement and the flush themselves are in the order claimed: after
\* the step the counter is one less and, at zero on an open collection,
\* no gated entry is queued.
DecrementThenFlush ==
  [][\A r \in 1..MaxRuns :
       Len(idx'.events[r]) > Len(idx.events[r]) =>
         /\ coll'.ensuringIndexes = coll.ensuringIndexes - 1
         /\ (coll'.ensuringIndexes = 0 /\ ~coll.buffer) =>
               emitIndex(coll').gated = 0]_vars

\* ------------------------------------- further claims on save and remove
\* The step is a call of save: one more insert has been submitted.
SaveCalled == Len(saves') = Len(saves) + 1
Submitted == saves'[Len(saves')]

\* C31 (as stated): a save of an instance that is not new submits the
\* insert for the instance's id and leaves isNew and inserting as they
\* were before the call.
C31_UpdateSaveLeavesFlags ==
  [][(SaveCalled /\ ~doc.isNew) =>
        /\ Submitted.status = "inflight" /\ Submitted.id = doc.id
        /\ doc'.isNew = doc.isNew
        /\ doc'.inserting = doc.inserting]_vars

\* C31 (amended): a save of an instance that is not new submits the insert
\* for the instance's id, leaves isNew false and leaves inserting false,
\* whatever inserting was before; id and revision are untouched.
C31_UpdateSaveClearsInserting ==
  [][(SaveCalled /\ ~doc.isNew) =>
        /\ Submitted.status = "inflight" /\ Submitted.id = doc.id
        /\ Submitted.path = "update"
        /\ doc' = [doc EXCEPT !.inserting = FALSE]]_vars

\* The second save of an instance was made while its first, the insert of
\* the new document, had set inserting: inserting is false after it.
C31_Witness ==
  /\ Len(saves) = 2
  /\ saves[1].path = "new" /\ saves[2].path = "update"
  /\ saves[2].seen = 0
  /\ ~doc.isNew /\ ~doc.inserting

\* C35: once a save of the instance has been acknowledged as successful
\* the instance is not new, whatever saves were made or resolved since.
C35_NotNewAfterSuccess ==
  (\E k \in 1..Len(saves) : saves[k].status = "ok") => ~doc.isNew

\* The insert of a new instance succeeded and a save made after that, or
\* one made while it was in flight, failed.
C35_Witness ==
  /\ Len(saves) >= 2
  /\ saves[1].path = "new" /\ saves[1].status = "ok"
  /\ saves[2].status = "err"
  /\ ~doc.isNew

\* The instance was constructed new (not hydrated from the store): its
\* first save, if any, took the new-document path.
ConstructedNew == IF saves = <<>> THEN doc.isNew ELSE saves[1].path = "new"

\* C36: for an instance constructed new, when no save is in flight and
\* none has ever succeeded, the instance is new.
C36_NewUnlessSaved ==
  (ConstructedNew /\ \A k \in 1..Len(saves) : saves[k].status = "err")
     => doc.isNew

\* With saves made one after the other, each after the one before it
\* resolved, the instance is new whenever none has succeeded.
SequentialSavesRestoreNew ==
  (/\ ConstructedNew
   /\ \A k \in 1..Len(saves) : saves[k].status = "err" /\ saves[k].seen = k - 1)
     => doc.isNew

\* The step is a call of remove, and the call it recorded.
RemoveCalled == Len(removes') = Len(removes) + 1
Recorded == removes'[Len(removes')]
Succeeded == \E p \in 1..Len(promises) : promises[p] = "ok"

RemoveAfterFailureReissues ==
  /\ Len(removes) = 2 /\ Len(promises) = 2
  /\ promises[1] = "err" /\ removes[2].issued /\ removes[2].p = 2

\* ---------------------------------------- further claims on index synthesis
\* The view the claim names for an indexed field, and the emit it states:
\* doc.f followed by the index flag when the flag is a string.
ViewNameOf(f) == IF f = "name" THEN "byName" ELSE "byDisplayName"
EmitOf(f) ==
  [t |-> "emit", a |-> f,
   m |-> IF schema.tree[f] = "on" THEN "" ELSE schema.tree[f]]
HasIndexViews(d) ==
  \A f \in {"name", "displayName"} :
    schema.tree[f] # "off" =>
      /\ d.views.def
      /\ ViewNameOf(f) \in DOMAIN d.views.m
      /\ LET v == d.views.m[ViewNameOf(f)]
         IN /\ DOMAIN v = {"map"}
            /\ \E i \in 1..Len(v.map) : v.map[i] = EmitOf(f)
            /\ \A i \in 1..Len(v.map) : v.map[i].t = "emit" => v.map[i] = EmitOf(f)
            /\ schema.mapping # "variant" =>
                 v.map = <<Tk("function(doc)"), Brace, EmitOf(f), Tk("}")>>

\* C32: the design document a run sends to the store, and the one stored
\* after a run that completed without error, hold for each indexed field f
\* the view by<F> whose only function is a map emitting (doc.f with the
\* key modifier of a string index flag, doc); for a root schema the map is
\* that single statement, with no guard.
C32_IndexViewsNamedAndEmitting ==
  \A r \in 1..MaxRuns :
    /\ runs[r].phase = "write" => HasIndexViews(idx.doc)
    /\ CompletedCleanly(r) => HasIndexViews(design)

\* A root schema with name indexed under a key modifier and displayName
\* indexed plainly: the run wrote the design document.
C32_Witness ==
  /\ schema.mapping = "none"
  /\ schema.tree["name"] = ".toLowerCase()" /\ schema.tree["displayName"] = "on"
  /\ CompletedCleanly(1) /\ idx.writes[1] = 1
  /\ design.views.m["byName"].map =
       <<Tk("function(doc)"), Brace,
         [t |-> "emit", a |-> "name", m |-> ".toLowerCase()"], Tk("}")>>
  /\ "byDisplayName" \in DOMAIN design.views.m

\* ------------------------------------ further claims on Model.discriminator
\* The name of the call is already registered on the model it is made on,
\* the schema given is not a schema of that model or of its variants, and
\* none of the checks that come before the name check refuses the call.
NameRegistered ==
  /\ models[lastCall'.model].discriminators.def
  /\ lastCall'.name \in DOMAIN models[lastCall'.model].discriminators.m
  /\ CallSchema # CallBase
  /\ \A k \in 1..Len(models) : models[k].schema # CallSchema
      \/ (k # lastCall'.model /\ ~HasDiscriminators(k)
            /\ schemas[models[k].schema].mapping = "none")
  /\ lastCall'.threw \notin {"root", "key", "options"}

\* The registration under a taken name fails on the name check and leaves
\* the variant registered before in the mapping.
DuplicateKeepsVariant ==
  [][(DiscStep /\ NameRegistered) =>
        /\ lastCall'.threw = "name"
        /\ models'[lastCall'.model].discriminators.m[lastCall'.name]
             = models[lastCall'.model].discriminators.m[lastCall'.name]
        /\ Len(models') = Len(models)]_vars

\* C33: a Model.discriminator call under a name already registered on the
\* model fails, leaves the variant registered before in the model's
\* discriminators mapping, and leaves the schema it was given as it was.
C33_DuplicateNameLeavesSchema ==
  [][(DiscStep /\ NameRegistered) =>
        /\ lastCall'.threw = "name"
        /\ models'[lastCall'.model].discriminators.m[lastCall'.name]
             = models[lastCall'.model].discriminators.m[lastCall'.name]
        /\ schemas'[CallSchema] = schemas[CallSchema]]_vars

\* -------------------------------------------------------------- SpecFlat
\* One findOneWithView call on an open flat-file collection.
InitFlat ==
  /\ coll = NewCollection(FALSE)
  /\ runs = [r \in 1..MaxRuns |-> NoRun]
  /\ nextId = 1
  /\ nEvents = 0
  /\ doc = NewDocument(TRUE)
  /\ saves = <<>>
  /\ removes = <<>>
  /\ promises = <<>>
  /\ schema = PlainSchema
  /\ design = NoDesign
  /\ model = NewModel
  /\ idx = NewIdx
  /\ schemas = NoSchemas
  /\ models = <<>>
  /\ lastCall = NoCall
  /\ lookup = NoLookup
  /\ listing = NoListing
  /\ \E v \in ViewRefs, k \in {"bob", "amy"}, ds \in SeqsUpTo(FlatDocs, MaxRows - 1) :
       flat = [NoFlat EXCEPT !.view = v, !.key = k, !.docs = ds,
                             !.state = "called"]

\* FlatFileCollection.prototype.findOneWithView up to the call of this.all:
\* the callback gets the error for an unsupported reference, and the
\* statements after the if run in either case.
FlatFindOneWithView ==
  /\ flat.state = "called"
  /\ flat' = [flat EXCEPT
                !.calls = IF ~startsWith(flat.view, RootBy)
                            THEN Append(@, CallbackErr) ELSE @,
                !.reads = @ + 1,
                !.state = "reading"]
  /\ UNCHANGED <<collVars, docVars, idxVars, discVars, lookup, listing>>

\* The callback given to this.all({include_docs: true}, ...).
FlatAllResponse(err) ==
  /\ flat.state = "reading"
  /\ flat' = [flat EXCEPT
                !.calls = Append(@,
                   IF err THEN CallbackErr
                   ELSE CallbackDoc(FirstMatch(flat.docs,
                          toLowerCase(substr(flat.view, 8)), flat.key))),
                !.state = "done"]
  /\ UNCHANGED <<collVars, docVars, idxVars, discVars, lookup, listing>>

NextFlat ==
  \/ FlatFindOneWithView
  \/ \E err \in BOOLEAN : FlatAllResponse(err)

SpecFlat == InitFlat /\ [][NextFlat]_vars

\* The field a reference $root/by<Field> names, by the naming of the
\* synthesized views: the first letter of <Field> in lower case.
FieldOf(view) ==
  LET rest == substr(view, 8)
  IN IF rest = <<>> THEN rest
     ELSE toLowerCase(<<rest[1]>>) \o SubSeq(rest, 2, Len(rest))
Supported(view) == startsWith(view, RootBy)

\* C34: findOneWithView calls back exactly once: for a reference that is
\* not $root/by<Field>, with an error and without a read of the
\* collection; otherwise, when the read succeeds, with the first document
\* whose field equals opts.key, or undefined when there is none.
C34_FlatFindOneCallsBackOnce ==
  /\ Len(flat.calls) <= 1
  /\ flat.state = "done" => Len(flat.calls) = 1
  /\ (flat.state # "none" /\ ~Supported(flat.view)) =>
        /\ flat.reads = 0
        /\ flat.state # "called" => flat.calls = <<CallbackErr>>
  /\ (flat.state = "done" /\ Supported(flat.view) /\ ~flat.calls[1].err) =>
        flat.calls[1].doc = FirstMatch(flat.docs, FieldOf(flat.view), flat.key)

\* For a reference $root/by<field> whose field is all in lower case the
\* callback is called once, with the first match.
LowerCaseFieldFound ==
  (flat.state = "done" /\ Supported(flat.view)
     /\ FieldOf(flat.view) = toLowerCase(FieldOf(flat.view))) =>
        /\ Len(flat.calls) = 1
        /\ flat.reads = 1
        /\ ~flat.calls[1].err =>
             flat.calls[1].doc = FirstMatch(flat.docs, FieldOf(flat.view), flat.key)

\* ----------------------------------- further claims on queued functions
\* C39: a function given to callOrDeferUntilOpen without dontWaitForIndexes
\* runs only while the collection is not buffering and ensuringIndexes is
\* zero, and runs at most once.
C39_GatedFunctionRunsWhenReady ==
  /\ \A j \in Pos :
       (Log[j].op = "fn" /\ Log[j].wait) => (~Log[j].buf /\ Log[j].idx = 0)
  /\ \A i, j \in Pos :
       (Log[i].op = "fn" /\ Log[i].id = Log[j].id) => i = j

\* Such a function never runs during index synthesis and never twice.
GatedFunctionNotDuringIndexing ==
  /\ \A j \in Pos : (Log[j].op = "fn" /\ Log[j].wait) => Log[j].idx = 0
  /\ \A i, j \in Pos :
       (Log[i].op = "fn" /\ Log[i].id = Log[j].id) => i = j

\* ------------------------------------ further claims on the schema of a run
\* The callback of a run's findById runs in the step.
Diffed(r) == runs[r].phase = "fetch" /\ runs'[r].phase # "fetch"

\* C40: a run leaves the schema of the model as it was: the views, updates
\* and lists of schema.options after the diff are those before it, so a
\* second run requires the list texts the first one required.
C40_RunLeavesSchema ==
  [][\A r \in 1..MaxRuns : Diffed(r) =>
        /\ schema'.views = schema.views
        /\ schema'.updates = schema.updates
        /\ schema'.lists = schema.lists
        /\ Synthesize(schema', NoDesign).lists = Synthesize(schema, NoDesign).lists]_vars

\* The schema is left as it was by every run of a root model and of a
\* variant without custom lists; views and updates are never touched.
RunLeavesSchemaWithoutVariantLists ==
  [][\A r \in 1..MaxRuns : Diffed(r) =>
        /\ schema'.views = schema.views
        /\ schema'.updates = schema.updates
        /\ (~IsVariant(schema) \/ ~schema.lists.def) => schema' = schema]_vars

====
